---- MODULE Spec2Model ----
(***************************************************************************)
(* Verification-code engine of the flight booking backend: the phone OTP   *)
(* service (OTPService), the email verification and password reset         *)
(* service (EmailVerificationService), their in-memory stores, the clock   *)
(* they read and the delivery adapters they await.                         *)
(*                                                                         *)
(* JavaScript runs each handler to completion between awaits.  verifyOTP,  *)
(* verifyCode, verifyPasswordResetCode and the clear functions contain no  *)
(* await that yields before their last statement, so each is one atomic    *)
(* action.  The send functions await the delivery adapter once: the part   *)
(* before the await and the part after it are two actions, and any other   *)
(* handler may run in between.                                             *)
(*                                                                         *)
(* Strings are sequences of one-character strings, so that trimming,       *)
(* lower-casing, prefixing and length tests are computed as the code       *)
(* computes them.  Times are milliseconds, as Date.now() returns them.     *)
(***************************************************************************)
EXTENDS Integers, Sequences, FiniteSets, Bags, TLC

VARIABLES
    now,                  \* the wall clock, in ms (Date.now(), new Date())
    ticks,                \* number of clock advances so far (bounds the run)
    flow,                 \* the flow whose handlers this behaviour calls
                          \* ("shared": email verification and password reset)
    otpStorage,           \* OTPService.otpStorage: set of Map entries
    verificationStorage,  \* EmailVerificationService.verificationStorage
    inflight,             \* bag of send calls suspended at their delivery await
    result,               \* the response returned by the last finished call
    lastIssue,            \* history, per key: the last record a send stored
    flights,              \* MemStorage.flights: set of Map entries
    bookings              \* MemStorage.bookings: set of Map entries

vars == <<now, ticks, flow, otpStorage, verificationStorage, inflight,
          result, lastIssue, flights, bookings>>

----------------------------------------------------------------------------
(* Bounds of the model *)

\* clock advances per behaviour
MaxTicks == 2

\* send calls that may be suspended at their delivery await at one time
MaxInflight == 2

\* Math.random() returns r / RandDen for a numerator r in 0 .. RandDen - 1
RandDen == 1000

\* seats a flight has available at the start, at most
MaxSeats == 2

\* booking requests accepted per behaviour
MaxBookings == 3

----------------------------------------------------------------------------
(* Program constants *)

OTP_EXPIRY_MINUTES == 5
OTP_MAX_ATTEMPTS == 3
CODE_EXPIRY_MINUTES == 15
CODE_MAX_ATTEMPTS == 5
MinuteMs == 60000

\* Math.floor(100000 + Math.random() * 900000)
CodeBase == 100000
CodeSpan == 900000

----------------------------------------------------------------------------
(* Strings *)

Digits == <<"0", "1", "2", "3", "4", "5", "6", "7", "8", "9">>

RECURSIVE toString(_)
\* Number.prototype.toString() of a non-negative integer
toString(n) ==
    IF n < 10 THEN <<Digits[n + 1]>>
    ELSE toString(n \div 10) \o <<Digits[(n % 10) + 1]>>

startsWith(s, prefix) ==
    /\ Len(s) >= Len(prefix)
    /\ SubSeq(s, 1, Len(prefix)) = prefix

IsSpace(c) == c \in {" ", "\t"}

RECURSIVE trimStart(_)
trimStart(s) ==
    IF s # <<>> /\ IsSpace(Head(s)) THEN trimStart(Tail(s)) ELSE s

RECURSIVE trimEnd(_)
trimEnd(s) ==
    IF s # <<>> /\ IsSpace(s[Len(s)]) THEN trimEnd(SubSeq(s, 1, Len(s) - 1))
    ELSE s

\* String.prototype.trim()
trim(s) == trimEnd(trimStart(s))

LowerOf(c) ==
    CASE c = "A" -> "a"
      [] c = "B" -> "b"
      [] c = "R" -> "r"
      [] c = "X" -> "x"
      [] OTHER -> c

\* String.prototype.toLowerCase()
toLowerCase(s) == [i \in 1..Len(s) |-> LowerOf(s[i])]

----------------------------------------------------------------------------
(* Map<string, Record>: a set of entries, at most one per key *)

MapHas(m, k) == \E e \in m : e.key = k

MapGet(m, k) == CHOOSE e \in m : e.key = k

\* delete() leaving the entry in place
MapDelete_Kept(m, k) == m

MapDelete(m, k) == {e \in m : e.key # k}

\* set() adding an entry without replacing the one under the same key
MapSet_Append(m, k, rec) == m \cup {rec}

MapSet(m, k, rec) == {e \in m : e.key # k} \cup {rec}

\* Math.ceil(a / b) for b > 0
ceilDiv(a, b) == -((-a) \div b)

----------------------------------------------------------------------------
(* Inputs *)

\* phone numbers as callers type them: three spellings of one identity
PhoneInputs ==
    { <<"9", "8", "7", "6", "5", "4", "3", "2", "1", "0">>,
      <<"9", "8", "7", "6", "5", " ", "4", "3", "2", "1", "0">>,
      <<"+", "9", "1", "9", "8", "7", "6", "5", "4", "3", "2", "1", "0">> }

\* email addresses as callers type them: two spellings of one identity
EmailInputs ==
    { <<"a", "@", "x">>,
      <<" ", "A", "@", "X">> }

\* a second phone number and a second email address, of other identities
OtherPhone == <<"9", "1", "2", "3", "4", "5", "6", "7", "8", "9">>

OtherEmail == <<"b", "@", "x">>

\* numerators of Math.random()
RandSamples == {0, 425}

\* codes a caller may submit: any generated code, and one that is never generated
SubmittedCodes ==
    {toString(CodeBase + (r * CodeSpan) \div RandDen) : r \in RandSamples}
        \cup {<<"0", "0", "0", "0", "0", "0">>}

\* the external delivery adapters' answers
DeliveryOutcomes == {TRUE, FALSE}

----------------------------------------------------------------------------
(* SMSService *)

\* a code drawn from 0..999999 and printed without padding
generateOTP_Unpadded(r) == toString((r * (CodeBase + CodeSpan)) \div RandDen)

\* Math.floor(100000 + Math.random() * 900000).toString()
generateOTP(r) == toString(CodeBase + (r * CodeSpan) \div RandDen)

\* phoneNumber.replace(/[\s\-\(\)]/g, '')
cleanPhone(phoneNumber) ==
    SelectSeq(phoneNumber, LAMBDA c : ~(IsSpace(c) \/ c \in {"-", "(", ")"}))

\* the prefix rules applied to the number as typed, not to the cleaned one
formatPhoneNumber_Unclean(phoneNumber) ==
    IF ~startsWith(phoneNumber, <<"+">>) THEN
        IF startsWith(phoneNumber, <<"9", "1">>) /\ Len(phoneNumber) = 12
        THEN <<"+">> \o phoneNumber
        ELSE IF Len(phoneNumber) = 10 THEN <<"+", "9", "1">> \o phoneNumber
        ELSE <<"+">> \o phoneNumber
    ELSE phoneNumber

formatPhoneNumber(phoneNumber) ==
    LET clean == cleanPhone(phoneNumber) IN
    IF ~startsWith(clean, <<"+">>) THEN
        IF startsWith(clean, <<"9", "1">>) /\ Len(clean) = 12 THEN <<"+">> \o clean
        ELSE IF Len(clean) = 10 THEN <<"+", "9", "1">> \o clean
        ELSE <<"+">> \o clean
    ELSE clean

\* SMSService.sendOTP: its own validation, then the external providers' answer
SMS_sendOTP(phoneNumber, otp, providers) ==
    IF Len(phoneNumber) < 10 THEN FALSE
    ELSE IF Len(otp) # 6 THEN FALSE
    ELSE providers

PhoneKeys == {formatPhoneNumber(p) : p \in PhoneInputs}

----------------------------------------------------------------------------
(* EmailService *)

\* Math.floor(100000 + Math.random() * 900000).toString()
generateVerificationCode(r) == toString(CodeBase + (r * CodeSpan) \div RandDen)

\* email.toLowerCase().trim()
normalizeEmail(email) == trim(toLowerCase(email))

\* the reset record stored under the address itself
resetKey_Plain(normalizedEmail) == normalizedEmail

\* `reset_${normalizedEmail}`
resetKey(normalizedEmail) == <<"r", "e", "s", "e", "t", "_">> \o normalizedEmail

EmailKeys == {normalizeEmail(e) : e \in EmailInputs}

ResetKeys == {resetKey(normalizeEmail(e)) : e \in EmailInputs}

----------------------------------------------------------------------------
(* History kept for the properties; no handler reads it.                   *)
(* lastIssue[k] describes the last record a send call stored under k:      *)
(* its expiresAt, whether that call has returned success, and in "since"   *)
(* what has happened on key k after the record was stored:                 *)
(*   "quiet"    nothing                                                    *)
(*   "touched"  other calls ran on k, none removed the record              *)
(*   "cap"      a verify call removed it because the attempts were used up *)
(*   "rollback" the rollback of a failed delivery removed it               *)
(*   "clear"    clear was called for k                                     *)
(* Until a send call stores a record under k, lastIssue[k] is NoIssue.      *)
(* A clear replaces every other entry; "touched" replaces only "quiet";    *)
(* of "cap" and "rollback" the first one stays.                            *)
(* "early" tells whether, when the record was stored, the issuance before  *)
(* it had succeeded, was within its TTL and had not been cleared.          *)
(* A response carries one such fact in "hist": for a send that stored a    *)
(* record, "early"; for a send refused as rate-limited, whether the send   *)
(* before it had returned success and nothing had run on the key since;    *)
(* for a clear, whether a record was stored under the key.  The response    *)
(* of a send whose delivery failed carries in "n" the number of verify      *)
(* calls that had succeeded on its record when it was rolled back.          *)
(* A suspended send call carries "latest": its record is the last one      *)
(* stored under its key.                                                   *)

NoIssue == [expiresAt |-> -1, ok |-> FALSE, since |-> "quiet", early |-> FALSE]

Touch(k, ev) ==
    LET was == lastIssue[k].since IN
    IF lastIssue[k] = NoIssue THEN lastIssue
    ELSE
    [lastIssue EXCEPT ![k].since =
        IF ev = "clear" THEN "clear"
        ELSE IF was = "quiet" \/ (was = "touched" /\ ev # "touched") THEN ev
        ELSE was]

\* the last issuance for k succeeded and is within its TTL at time t
Within(k, t) == lastIssue[k].ok /\ t <= lastIssue[k].expiresAt

\* at time t the last successful issuance for k is within its TTL and clear
\* has not been called for k since
Early(k, t) == Within(k, t) /\ lastIssue[k].since # "clear"

\* at time t the last successful issuance for k is within its TTL and nothing
\* has removed its record since
Held(k, t) == Within(k, t) /\ lastIssue[k].since \in {"quiet", "touched"}

Stored(k, expiresAt) ==
    [lastIssue EXCEPT ![k] = [expiresAt |-> expiresAt, ok |-> FALSE,
                              since |-> "quiet", early |-> Early(k, now)]]

\* the send call's issuance followed a successful one early
WasEarly(call) == call.latest /\ lastIssue[call.key].early

Returned(call) ==
    IF call.latest THEN [lastIssue EXCEPT ![call.key].ok = TRUE]
    ELSE Touch(call.key, "touched")

Suspend(op, k, dest, code) ==
    BagOfAll(LAMBDA c : [c EXCEPT !.latest = @ /\ c.key # k], inflight)
        (+) SetToBag({[op |-> op, key |-> k, dest |-> dest, code |-> code,
                       latest |-> TRUE]})

Resume(call) == inflight (-) SetToBag({call})

\* the number of verify calls that have succeeded on the record the send call
\* stored, counted on the record if it is still the one under the call's key
VerifiedInFlight(storage, call) ==
    IF call.latest /\ MapHas(storage, call.key)
    THEN MapGet(storage, call.key).oks
    ELSE 0

\* the last issuance for k succeeded, is within its TTL at time t, and no
\* other call has run on k since its record was stored
BackToBack(k, t) == Within(k, t) /\ lastIssue[k].since = "quiet"

Response(op, k, outcome, n, hist) ==
    [op |-> op, key |-> k, outcome |-> outcome, n |-> n, hist |-> hist]

----------------------------------------------------------------------------
(* OTPService *)

\* the expiry comparison reversed
OTP_isExpired_Reversed(otpRecord, t) == t < otpRecord.expiresAt

\* new Date() > otpRecord.expiresAt
OTP_isExpired(otpRecord, t) == t > otpRecord.expiresAt

\* the sweep deleting the records that have not expired
cleanupExpiredOTPs_Reversed(storage, t) == {e \in storage : t > e.expiresAt}

\* for (const [phone, record] of entries) if (now > record.expiresAt) delete
\* the sweep removing also the records that expire at this very instant
cleanupExpiredOTPs_AtBoundary(storage, t) == {e \in storage : t < e.expiresAt}

cleanupExpiredOTPs(storage, t) == {e \in storage : ~(t > e.expiresAt)}

\* the rate limit applied only to records not yet verified
OTP_RateLimited_Unverified(storage, formattedPhone, t) ==
    /\ MapHas(storage, formattedPhone)
    /\ ~OTP_isExpired(MapGet(storage, formattedPhone), t)
    /\ ~MapGet(storage, formattedPhone).verified

\* existingOTP && !this.isExpired(existingOTP)
OTP_RateLimited(storage, formattedPhone, t) ==
    /\ MapHas(storage, formattedPhone)
    /\ ~OTP_isExpired(MapGet(storage, formattedPhone), t)

\* Math.ceil((existingOTP.expiresAt.getTime() - Date.now()) / 60000)
OTP_remainingTime(existingOTP, t) == ceilDiv(existingOTP.expiresAt - t, MinuteMs)

\* new Date(Date.now() + this.OTP_EXPIRY_MINUTES * 60 * 1000)
OTP_expiresAt(t) == t + OTP_EXPIRY_MINUTES * 60 * 1000

\* the new record taking over the attempts of the record it replaces
OTP_NewRecord_CarryOver(formattedPhone, otp, t) ==
    [key |-> formattedPhone, phone |-> formattedPhone, otp |-> otp,
     expiresAt |-> OTP_expiresAt(t),
     attempts |-> IF MapHas(otpStorage, formattedPhone)
                  THEN MapGet(otpStorage, formattedPhone).attempts ELSE 0,
     verified |-> FALSE, compared |-> 0, oks |-> 0]

\* the record sendOTP stores
OTP_NewRecord(formattedPhone, otp, t) ==
    [key |-> formattedPhone, phone |-> formattedPhone, otp |-> otp,
     expiresAt |-> OTP_expiresAt(t), attempts |-> 0, verified |-> FALSE,
     compared |-> 0, oks |-> 0]

\* the check on otpRecord.verified left out
OTP_AlreadyVerified_Skipped(otpRecord) == FALSE

\* the check on otpRecord.verified applying only below the attempt cap, as
\* when the attempt gate is tested first
OTP_AlreadyVerified_BelowCap(otpRecord) ==
    otpRecord.verified /\ otpRecord.attempts < OTP_MAX_ATTEMPTS

\* if (otpRecord.verified)
OTP_AlreadyVerified(otpRecord) == otpRecord.verified

\* the attempt gate off by one: > for >=
OTP_AttemptsExceeded_OffByOne(otpRecord) == otpRecord.attempts > OTP_MAX_ATTEMPTS

\* if (otpRecord.attempts >= this.MAX_ATTEMPTS)
OTP_AttemptsExceeded(otpRecord) == otpRecord.attempts >= OTP_MAX_ATTEMPTS

\* the attempts-used-up branch failing without deleting the record
OTP_OnAttemptsExceeded_Kept(storage, formattedPhone) ==
    [storage |-> storage, outcome |-> "max_attempts", n |-> 0]

\* the branch taken when the attempts are used up: delete, then fail
OTP_OnAttemptsExceeded(storage, formattedPhone) ==
    [storage |-> MapDelete(storage, formattedPhone),
     outcome |-> "max_attempts", n |-> 0]

\* the remaining attempts computed from attempts before the increment
OTP_remainingAttempts_Before(otpRecord) ==
    OTP_MAX_ATTEMPTS - otpRecord.attempts + 1

\* this.MAX_ATTEMPTS - otpRecord.attempts
OTP_remainingAttempts(otpRecord) == OTP_MAX_ATTEMPTS - otpRecord.attempts

\* verifyOTP's effect on the store and its answer, at clock value t.
\* the attempt going uncounted
OTP_countAttempt_Skipped(otpRecord) == [otpRecord EXCEPT !.compared = @ + 1]

\* the attempt counted and the record given one more minute
OTP_countAttempt_Extending(otpRecord) ==
    [otpRecord EXCEPT !.attempts = @ + 1, !.compared = @ + 1,
                      !.expiresAt = @ + MinuteMs]

\* otpRecord.attempts++, before the comparison
OTP_countAttempt(otpRecord) ==
    [otpRecord EXCEPT !.attempts = @ + 1, !.compared = @ + 1]

\* "compared" counts the calls that reach the comparison and "oks" those that
\* succeed; the code keeps neither.
OTP_verify(storage, phoneNumber, otp, t) ==
    LET formattedPhone == formatPhoneNumber(phoneNumber) IN
    IF ~MapHas(storage, formattedPhone) THEN
        [storage |-> storage, outcome |-> "not_found", n |-> 0]
    ELSE
    LET otpRecord == MapGet(storage, formattedPhone) IN
    IF OTP_isExpired(otpRecord, t) THEN
        [storage |-> MapDelete(storage, formattedPhone),
         outcome |-> "expired", n |-> 0]
    ELSE IF OTP_AlreadyVerified(otpRecord) THEN
        [storage |-> storage, outcome |-> "already_used", n |-> 0]
    ELSE IF OTP_AttemptsExceeded(otpRecord) THEN
        OTP_OnAttemptsExceeded(storage, formattedPhone)
    ELSE
    LET counted == OTP_countAttempt(otpRecord) IN
    IF counted.otp # otp THEN
        [storage |-> MapSet(storage, formattedPhone, counted),
         outcome |-> "mismatch", n |-> OTP_remainingAttempts(counted)]
    ELSE
        [storage |-> MapSet(storage, formattedPhone,
                            [counted EXCEPT !.verified = TRUE, !.oks = @ + 1]),
         outcome |-> "ok", n |-> 0]

\* sendOTP without the sweep, refusing whenever a record is stored
sendOTP_Unswept(phoneNumber, r) ==
    /\ flow = "otp"
    /\ LET formattedPhone == formatPhoneNumber(phoneNumber)
           otp == generateOTP(r)
       IN
       IF MapHas(otpStorage, formattedPhone) THEN
           /\ result' = Response("sendOTP", formattedPhone, "rate_limited",
                                 OTP_remainingTime(MapGet(otpStorage, formattedPhone), now),
                                 BackToBack(formattedPhone, now))
           /\ lastIssue' = Touch(formattedPhone, "touched")
           /\ UNCHANGED <<otpStorage, inflight, flights, bookings>>
       ELSE
           /\ BagCardinality(inflight) < MaxInflight
           /\ otpStorage' = MapSet(otpStorage, formattedPhone,
                                   OTP_NewRecord(formattedPhone, otp, now))
           /\ inflight' = Suspend("sendOTP", formattedPhone, formattedPhone, otp)
           /\ lastIssue' = Stored(formattedPhone, OTP_expiresAt(now))
           /\ UNCHANGED result
    /\ UNCHANGED <<now, ticks, flow, verificationStorage, flights, bookings>>

\* sendOTP up to its await of SMSService.sendOTP
sendOTP(phoneNumber, r) ==
    /\ flow = "otp"
    /\ LET swept == cleanupExpiredOTPs(otpStorage, now)
           formattedPhone == formatPhoneNumber(phoneNumber)
           otp == generateOTP(r)
       IN
       IF OTP_RateLimited(swept, formattedPhone, now) THEN
           /\ otpStorage' = swept
           /\ result' = Response("sendOTP", formattedPhone, "rate_limited",
                                 OTP_remainingTime(MapGet(swept, formattedPhone), now),
                                 BackToBack(formattedPhone, now))
           /\ lastIssue' = Touch(formattedPhone, "touched")
           /\ UNCHANGED inflight
       ELSE
           /\ BagCardinality(inflight) < MaxInflight
           /\ otpStorage' = MapSet(swept, formattedPhone,
                                   OTP_NewRecord(formattedPhone, otp, now))
           /\ inflight' = Suspend("sendOTP", formattedPhone, formattedPhone, otp)
           /\ lastIssue' = Stored(formattedPhone, OTP_expiresAt(now))
           /\ UNCHANGED result
    /\ UNCHANGED <<now, ticks, flow, verificationStorage, flights, bookings>>

\* sendOTP after its await: roll back on failure, answer
sendOTP_resume(call, providers) ==
    /\ call.op = "sendOTP"
    /\ inflight' = Resume(call)
    /\ IF ~SMS_sendOTP(call.dest, call.code, providers) THEN
           /\ otpStorage' = MapDelete(otpStorage, call.key)
           /\ result' = Response("sendOTP", call.key, "delivery_failed",
                                 VerifiedInFlight(otpStorage, call),
                                 WasEarly(call))
           /\ lastIssue' = Touch(call.key, "rollback")
       ELSE
           /\ result' = Response("sendOTP", call.key, "sent", 0, WasEarly(call))
           /\ lastIssue' = Returned(call)
           /\ UNCHANGED otpStorage
    /\ UNCHANGED <<now, ticks, flow, verificationStorage, flights, bookings>>

verifyOTP(phoneNumber, otp) ==
    /\ flow = "otp"
    /\ LET v == OTP_verify(otpStorage, phoneNumber, otp, now)
           formattedPhone == formatPhoneNumber(phoneNumber)
       IN
       /\ otpStorage' = v.storage
       /\ result' = Response("verifyOTP", formattedPhone, v.outcome, v.n, FALSE)
       /\ lastIssue' = Touch(formattedPhone,
                             IF v.outcome = "max_attempts" THEN "cap" ELSE "touched")
    /\ UNCHANGED <<now, ticks, flow, verificationStorage, inflight, flights, bookings>>

\* clearOTP deleting under the phone number as typed
clearOTP_Unformatted(phoneNumber) ==
    /\ flow = "otp"
    /\ otpStorage' = MapDelete(otpStorage, phoneNumber)
    /\ result' = Response("clearOTP", formatPhoneNumber(phoneNumber), "cleared", 0,
                          MapHas(otpStorage, formatPhoneNumber(phoneNumber)))
    /\ lastIssue' = Touch(formatPhoneNumber(phoneNumber), "clear")
    /\ UNCHANGED <<now, ticks, flow, verificationStorage, inflight, flights, bookings>>

\* clearOTP emptying the store
clearOTP_All(phoneNumber) ==
    /\ flow = "otp"
    /\ otpStorage' = {}
    /\ result' = Response("clearOTP", formatPhoneNumber(phoneNumber), "cleared", 0,
                          MapHas(otpStorage, formatPhoneNumber(phoneNumber)))
    /\ lastIssue' = Touch(formatPhoneNumber(phoneNumber), "clear")
    /\ UNCHANGED <<now, ticks, flow, verificationStorage, inflight, flights, bookings>>

clearOTP(phoneNumber) ==
    /\ flow = "otp"
    /\ LET formattedPhone == formatPhoneNumber(phoneNumber) IN
       /\ otpStorage' = MapDelete(otpStorage, formattedPhone)
       /\ result' = Response("clearOTP", formattedPhone, "cleared", 0,
                             MapHas(otpStorage, formattedPhone))
       /\ lastIssue' = Touch(formattedPhone, "clear")
    /\ UNCHANGED <<now, ticks, flow, verificationStorage, inflight, flights, bookings>>

----------------------------------------------------------------------------
(* EmailVerificationService: email verification *)

\* new Date() > record.expiresAt
Email_isExpired(record, t) == t > record.expiresAt

\* for (const [email, record] of entries) if (now > record.expiresAt) delete
cleanupExpiredCodes(storage, t) == {e \in storage : ~(t > e.expiresAt)}

\* existingRecord && !this.isExpired(existingRecord)
Email_RateLimited(storage, k, t) ==
    /\ MapHas(storage, k)
    /\ ~Email_isExpired(MapGet(storage, k), t)

\* Math.ceil((existingRecord.expiresAt.getTime() - Date.now()) / 60000)
Email_remainingTime(existingRecord, t) ==
    ceilDiv(existingRecord.expiresAt - t, MinuteMs)

\* new Date(Date.now() + this.CODE_EXPIRY_MINUTES * 60 * 1000)
Email_expiresAt(t) == t + CODE_EXPIRY_MINUTES * 60 * 1000

\* the record sendVerificationCode and sendPasswordResetCode store under k
Email_NewRecord(k, normalizedEmail, code, t) ==
    [key |-> k, email |-> normalizedEmail, code |-> code,
     expiresAt |-> Email_expiresAt(t), attempts |-> 0, verified |-> FALSE,
     compared |-> 0, oks |-> 0]

\* if (record.verified)
Email_AlreadyVerified(record) == record.verified

\* if (record.attempts >= this.MAX_ATTEMPTS)
Email_AttemptsExceeded(record) == record.attempts >= CODE_MAX_ATTEMPTS

\* the branch taken when the attempts are used up: delete, then fail
Email_OnAttemptsExceeded(storage, k) ==
    [storage |-> MapDelete(storage, k), outcome |-> "max_attempts", n |-> 0]

\* this.MAX_ATTEMPTS - record.attempts
Email_remainingAttempts(record) == CODE_MAX_ATTEMPTS - record.attempts

\* record.attempts++ and the comparison record.code !== code.trim()
Email_compare(storage, k, record, code) ==
    LET counted == [record EXCEPT !.attempts = @ + 1, !.compared = @ + 1] IN
    IF counted.code # trim(code) THEN
        [storage |-> MapSet(storage, k, counted),
         outcome |-> "mismatch", n |-> Email_remainingAttempts(counted)]
    ELSE
        [storage |-> MapSet(storage, k,
                            [counted EXCEPT !.verified = TRUE, !.oks = @ + 1]),
         outcome |-> "ok", n |-> 0]

\* verifyCode's effect on the store and its answer, at clock value t
Email_verify(storage, email, code, t) ==
    LET normalizedEmail == normalizeEmail(email) IN
    IF ~MapHas(storage, normalizedEmail) THEN
        [storage |-> storage, outcome |-> "not_found", n |-> 0]
    ELSE
    LET record == MapGet(storage, normalizedEmail) IN
    IF Email_isExpired(record, t) THEN
        [storage |-> MapDelete(storage, normalizedEmail),
         outcome |-> "expired", n |-> 0]
    ELSE IF Email_AlreadyVerified(record) THEN
        [storage |-> storage, outcome |-> "already_used", n |-> 0]
    ELSE IF Email_AttemptsExceeded(record) THEN
        Email_OnAttemptsExceeded(storage, normalizedEmail)
    ELSE Email_compare(storage, normalizedEmail, record, code)

\* sendVerificationCode up to its await of EmailService.sendVerificationEmail
sendVerificationCode(email, r) ==
    /\ flow \in {"email", "shared"}
    /\ LET swept == cleanupExpiredCodes(verificationStorage, now)
           normalizedEmail == normalizeEmail(email)
           code == generateVerificationCode(r)
       IN
       IF Email_RateLimited(swept, normalizedEmail, now) THEN
           /\ verificationStorage' = swept
           /\ result' = Response("sendVerificationCode", normalizedEmail,
                                 "rate_limited",
                                 Email_remainingTime(MapGet(swept, normalizedEmail), now),
                                 BackToBack(normalizedEmail, now))
           /\ lastIssue' = Touch(normalizedEmail, "touched")
           /\ UNCHANGED inflight
       ELSE
           /\ BagCardinality(inflight) < MaxInflight
           /\ verificationStorage' =
                  MapSet(swept, normalizedEmail,
                         Email_NewRecord(normalizedEmail, normalizedEmail, code, now))
           /\ inflight' = Suspend("sendVerificationCode", normalizedEmail,
                                  normalizedEmail, code)
           /\ lastIssue' = Stored(normalizedEmail, Email_expiresAt(now))
           /\ UNCHANGED result
    /\ UNCHANGED <<now, ticks, flow, otpStorage, flights, bookings>>

\* sendVerificationCode after its await: roll back on failure, answer
sendVerificationCode_resume(call, delivered) ==
    /\ call.op = "sendVerificationCode"
    /\ inflight' = Resume(call)
    /\ IF ~delivered THEN
           /\ verificationStorage' = MapDelete(verificationStorage, call.key)
           /\ result' = Response("sendVerificationCode", call.key,
                                 "delivery_failed",
                                 VerifiedInFlight(verificationStorage, call),
                                 WasEarly(call))
           /\ lastIssue' = Touch(call.key, "rollback")
       ELSE
           /\ result' = Response("sendVerificationCode", call.key, "sent", 0,
                                 WasEarly(call))
           /\ lastIssue' = Returned(call)
           /\ UNCHANGED verificationStorage
    /\ UNCHANGED <<now, ticks, flow, otpStorage, flights, bookings>>

verifyCode(email, code) ==
    /\ flow \in {"email", "shared"}
    /\ LET v == Email_verify(verificationStorage, email, code, now)
           normalizedEmail == normalizeEmail(email)
       IN
       /\ verificationStorage' = v.storage
       /\ result' = Response("verifyCode", normalizedEmail, v.outcome, v.n, FALSE)
       /\ lastIssue' = Touch(normalizedEmail,
                             IF v.outcome = "max_attempts" THEN "cap" ELSE "touched")
    /\ UNCHANGED <<now, ticks, flow, otpStorage, inflight, flights, bookings>>

clearVerification(email) ==
    /\ flow \in {"email", "shared"}
    /\ LET normalizedEmail == normalizeEmail(email) IN
       /\ verificationStorage' = MapDelete(verificationStorage, normalizedEmail)
       /\ result' = Response("clearVerification", normalizedEmail, "cleared", 0,
                             MapHas(verificationStorage, normalizedEmail))
       /\ lastIssue' = Touch(normalizedEmail, "clear")
    /\ UNCHANGED <<now, ticks, flow, otpStorage, inflight, flights, bookings>>

----------------------------------------------------------------------------
(* EmailVerificationService: password reset *)

\* verifyPasswordResetCode's effect on the store and its answer, at clock
\* value t: the checks of verifyCode without the one on record.verified
Reset_verify(storage, email, code, t) ==
    LET k == resetKey(normalizeEmail(email)) IN
    IF ~MapHas(storage, k) THEN
        [storage |-> storage, outcome |-> "not_found", n |-> 0]
    ELSE
    LET record == MapGet(storage, k) IN
    IF Email_isExpired(record, t) THEN
        [storage |-> MapDelete(storage, k), outcome |-> "expired", n |-> 0]
    ELSE IF Email_AttemptsExceeded(record) THEN
        Email_OnAttemptsExceeded(storage, k)
    ELSE Email_compare(storage, k, record, code)

\* sendPasswordResetCode up to its await of EmailService.sendPasswordResetEmail
sendPasswordResetCode(email, r) ==
    /\ flow \in {"reset", "shared"}
    /\ LET swept == cleanupExpiredCodes(verificationStorage, now)
           normalizedEmail == normalizeEmail(email)
           k == resetKey(normalizedEmail)
           code == generateVerificationCode(r)
       IN
       IF Email_RateLimited(swept, k, now) THEN
           /\ verificationStorage' = swept
           /\ result' = Response("sendPasswordResetCode", k, "rate_limited",
                                 Email_remainingTime(MapGet(swept, k), now),
                                 BackToBack(k, now))
           /\ lastIssue' = Touch(k, "touched")
           /\ UNCHANGED inflight
       ELSE
           /\ BagCardinality(inflight) < MaxInflight
           /\ verificationStorage' =
                  MapSet(swept, k, Email_NewRecord(k, normalizedEmail, code, now))
           /\ inflight' = Suspend("sendPasswordResetCode", k, normalizedEmail, code)
           /\ lastIssue' = Stored(k, Email_expiresAt(now))
           /\ UNCHANGED result
    /\ UNCHANGED <<now, ticks, flow, otpStorage, flights, bookings>>

\* sendPasswordResetCode after its await: roll back on failure, answer
sendPasswordResetCode_resume(call, delivered) ==
    /\ call.op = "sendPasswordResetCode"
    /\ inflight' = Resume(call)
    /\ IF ~delivered THEN
           /\ verificationStorage' = MapDelete(verificationStorage, call.key)
           /\ result' = Response("sendPasswordResetCode", call.key,
                                 "delivery_failed",
                                 VerifiedInFlight(verificationStorage, call),
                                 WasEarly(call))
           /\ lastIssue' = Touch(call.key, "rollback")
       ELSE
           /\ result' = Response("sendPasswordResetCode", call.key, "sent", 0,
                                 WasEarly(call))
           /\ lastIssue' = Returned(call)
           /\ UNCHANGED verificationStorage
    /\ UNCHANGED <<now, ticks, flow, otpStorage, flights, bookings>>

verifyPasswordResetCode(email, code) ==
    /\ flow \in {"reset", "shared"}
    /\ LET v == Reset_verify(verificationStorage, email, code, now)
           k == resetKey(normalizeEmail(email))
       IN
       /\ verificationStorage' = v.storage
       /\ result' = Response("verifyPasswordResetCode", k, v.outcome, v.n, FALSE)
       /\ lastIssue' = Touch(k, IF v.outcome = "max_attempts" THEN "cap"
                                ELSE "touched")
    /\ UNCHANGED <<now, ticks, flow, otpStorage, inflight, flights, bookings>>

clearPasswordReset(email) ==
    /\ flow \in {"reset", "shared"}
    /\ LET k == resetKey(normalizeEmail(email)) IN
       /\ verificationStorage' = MapDelete(verificationStorage, k)
       /\ result' = Response("clearPasswordReset", k, "cleared", 0,
                             MapHas(verificationStorage, k))
       /\ lastIssue' = Touch(k, "clear")
    /\ UNCHANGED <<now, ticks, flow, otpStorage, inflight, flights, bookings>>

----------------------------------------------------------------------------
(* getStats *)

\* { total, expired, verified } as getStats returns them
StatsResponse(total, expired, verified) ==
    [op |-> "getStats", key |-> <<>>, outcome |-> "stats", n |-> total,
     hist |-> FALSE, expired |-> expired, verified |-> verified]

\* OTPService.getStats sweeping the store before it counts
OTP_getStats_Sweeping ==
    /\ flow = "otp"
    /\ otpStorage' = cleanupExpiredOTPs(otpStorage, now)
    /\ result' = StatsResponse(
                    Cardinality(otpStorage'),
                    Cardinality({record \in otpStorage' : OTP_isExpired(record, now)}),
                    Cardinality({record \in otpStorage' : record.verified}))
    /\ UNCHANGED <<now, ticks, flow, verificationStorage, inflight, lastIssue, flights, bookings>>

\* OTPService.getStats
OTP_getStats ==
    /\ flow = "otp"
    /\ result' = StatsResponse(
                    Cardinality(otpStorage),
                    Cardinality({record \in otpStorage : OTP_isExpired(record, now)}),
                    Cardinality({record \in otpStorage : record.verified}))
    /\ UNCHANGED <<now, ticks, flow, otpStorage, verificationStorage, inflight,
                   lastIssue,
                   flights, bookings>>

\* EmailVerificationService.getStats
Email_getStats ==
    /\ flow # "otp"
    /\ result' = StatsResponse(
                    Cardinality(verificationStorage),
                    Cardinality({record \in verificationStorage :
                                    Email_isExpired(record, now)}),
                    Cardinality({record \in verificationStorage : record.verified}))
    /\ UNCHANGED <<now, ticks, flow, otpStorage, verificationStorage, inflight,
                   lastIssue,
                   flights, bookings>>

----------------------------------------------------------------------------
(* The clock *)

\* the TTL of the flow's codes, in ms
FlowTTL ==
    (IF flow = "otp" THEN OTP_EXPIRY_MINUTES ELSE CODE_EXPIRY_MINUTES) * MinuteMs

\* the advances of the clock between two handlers: one millisecond, and one
\* millisecond less than the flow's TTL
ClockSteps == {1, FlowTTL - 1}

Tick(d) ==
    /\ ticks < MaxTicks
    /\ now' = now + d
    /\ ticks' = ticks + 1
    /\ UNCHANGED <<flow, otpStorage, verificationStorage, inflight, result,
                   lastIssue,
                   flights, bookings>>

----------------------------------------------------------------------------
(* MemStorage: flights and bookings; BookingController.createBooking *)

\* the flight the requests are for, and an id no flight has
FlightOne == <<"F", "1">>

FlightIds == {FlightOne, <<"F", "9">>}

\* the users Map is not written by these handlers: one user exists
Users == {<<"U", "1">>}

UserIds == Users \cup {<<"U", "9">>}

\* the flights Map holding FlightOne with n seats available; seatsAtStart is
\* history for the properties, no handler reads or writes it
SampleFlights(n) ==
    {[key |-> FlightOne, seatsAvailable |-> n, seatsAtStart |-> n]}

\* flight.seatsAvailable -= seatsBooked, if the flight exists
updateFlightSeats(m, flightId, seatsBooked) ==
    IF MapHas(m, flightId)
    THEN MapSet(m, flightId,
                [MapGet(m, flightId) EXCEPT !.seatsAvailable = @ - seatsBooked])
    ELSE m

\* randomUUID(): an id no booking has
NewBookingId == Cardinality(bookings) + 1

\* a request suspended at the await named by pc; "flight" and "user" say
\* whether the lookup the call awaits found its object, "booking" is the id
\* of the booking it created (0: none)
BookingCall(pc, flightId, userId, flight, user, booking) ==
    [op |-> "createBooking", pc |-> pc, flightId |-> flightId,
     userId |-> userId, flight |-> flight, user |-> user, booking |-> booking]

\* the body of the JSON response: "n" is the HTTP status, "seats" the
\* seatsAvailable of data.flight (-1 where the body has no flight)
BookingResponse(flightId, status, message, seats) ==
    [op |-> "createBooking", key |-> flightId, outcome |-> message,
     n |-> status, hist |-> FALSE, seats |-> seats]

\* the handler up to `await storage.getFlightById(...)`
createBooking(valid, flightId, userId) ==
    /\ flow = "booking"
    /\ BagCardinality(inflight) < MaxInflight
    /\ Cardinality(bookings) + BagCardinality(inflight) < MaxBookings
    /\ IF ~valid
       THEN /\ result' = BookingResponse(flightId, 400, "Invalid booking data", -1)
            /\ UNCHANGED inflight
       ELSE /\ inflight' = inflight (+) SetToBag({
                    BookingCall("getFlightById", flightId, userId,
                                MapHas(flights, flightId), FALSE, 0)})
            /\ UNCHANGED result
    /\ UNCHANGED <<now, ticks, flow, otpStorage, verificationStorage,
                   lastIssue, flights, bookings>>

\* from the flight lookup to `await storage.getUser(...)`: the flight is the
\* object the Map holds, so the availability test reads its present value
createBooking_flight(call) ==
    /\ call \in BagToSet(inflight)
    /\ call.op = "createBooking"
    /\ call.pc = "getFlightById"
    /\ IF ~call.flight
       THEN /\ result' = BookingResponse(call.flightId, 404, "Flight not found", -1)
            /\ inflight' = Resume(call)
       ELSE IF MapGet(flights, call.flightId).seatsAvailable <= 0
       THEN /\ result' = BookingResponse(call.flightId, 400,
                                         "No seats available for this flight", -1)
            /\ inflight' = Resume(call)
       ELSE /\ inflight' = Resume(call) (+) SetToBag({
                    [call EXCEPT !.pc = "getUser",
                                 !.user = call.userId \in Users]})
            /\ UNCHANGED result
    /\ UNCHANGED <<now, ticks, flow, otpStorage, verificationStorage,
                   lastIssue, flights, bookings>>

\* from the user lookup to `await storage.createBooking(...)`, whose body
\* stores the booking and takes the seat before its own await
createBooking_user(call) ==
    /\ call \in BagToSet(inflight)
    /\ call.op = "createBooking"
    /\ call.pc = "getUser"
    /\ IF ~call.user
       THEN /\ result' = BookingResponse(call.flightId, 404, "User not found", -1)
            /\ inflight' = Resume(call)
            /\ UNCHANGED <<flights, bookings>>
       ELSE /\ bookings' = MapSet(bookings, NewBookingId,
                                  [key |-> NewBookingId,
                                   flightId |-> call.flightId,
                                   userId |-> call.userId,
                                   status |-> "pending"])
            /\ flights' = updateFlightSeats(flights, call.flightId, 1)
            /\ inflight' = Resume(call) (+) SetToBag({
                    [call EXCEPT !.pc = "createBooking",
                                 !.booking = NewBookingId]})
            /\ UNCHANGED result
    /\ UNCHANGED <<now, ticks, flow, otpStorage, verificationStorage,
                   lastIssue>>

\* after storage.createBooking: the 201 response with the booking and flight
createBooking_created(call) ==
    /\ call \in BagToSet(inflight)
    /\ call.op = "createBooking"
    /\ call.pc = "createBooking"
    /\ result' = BookingResponse(call.flightId, 201, "Booking created successfully",
                                 MapGet(flights, call.flightId).seatsAvailable)
    /\ inflight' = Resume(call)
    /\ UNCHANGED <<now, ticks, flow, otpStorage, verificationStorage,
                   lastIssue, flights, bookings>>

InitBooking ==
    /\ now = 0
    /\ ticks = 0
    /\ flow = "booking"
    /\ otpStorage = {}
    /\ verificationStorage = {}
    /\ inflight = EmptyBag
    /\ result = BookingResponse(<<>>, 0, "none", -1)
    /\ lastIssue = [k \in {} |-> FALSE]
    /\ \E n \in 0 .. MaxSeats : flights = SampleFlights(n)
    /\ bookings = {}

NextBooking ==
    \/ \E v \in BOOLEAN, f \in FlightIds, u \in UserIds : createBooking(v, f, u)
    \/ \E c \in BagToSet(inflight) : createBooking_flight(c)
    \/ \E c \in BagToSet(inflight) : createBooking_user(c)
    \/ \E c \in BagToSet(inflight) : createBooking_created(c)

SpecBooking == InitBooking /\ [][NextBooking]_vars

----------------------------------------------------------------------------
(* The system *)

Flows == {"otp", "email", "reset"}

Keys == PhoneKeys \cup EmailKeys \cup ResetKeys

\* the keys of the second identity
OtherKeys == {formatPhoneNumber(OtherPhone), normalizeEmail(OtherEmail)}

Init ==
    /\ now = 0
    /\ ticks = 0
    /\ flow \in Flows
    /\ otpStorage = {}
    /\ verificationStorage = {}
    /\ inflight = EmptyBag
    /\ result = Response("none", <<>>, "none", 0, FALSE)
    /\ lastIssue = [k \in Keys \cup OtherKeys |-> NoIssue]
    /\ flights = SampleFlights(MaxSeats)
    /\ bookings = {}

Next ==
    \/ \E d \in ClockSteps : Tick(d)
    \/ \E p \in PhoneInputs, r \in RandSamples : sendOTP(p, r)
    \/ \E c \in BagToSet(inflight), a \in DeliveryOutcomes : sendOTP_resume(c, a)
    \/ \E p \in PhoneInputs, c \in SubmittedCodes : verifyOTP(p, c)
    \/ \E p \in PhoneInputs : clearOTP(p)
    \/ \E e \in EmailInputs, r \in RandSamples : sendVerificationCode(e, r)
    \/ \E c \in BagToSet(inflight), a \in DeliveryOutcomes :
           sendVerificationCode_resume(c, a)
    \/ \E e \in EmailInputs, c \in SubmittedCodes : verifyCode(e, c)
    \/ \E e \in EmailInputs : clearVerification(e)
    \/ \E e \in EmailInputs, r \in RandSamples : sendPasswordResetCode(e, r)
    \/ \E c \in BagToSet(inflight), a \in DeliveryOutcomes :
           sendPasswordResetCode_resume(c, a)
    \/ \E e \in EmailInputs, c \in SubmittedCodes : verifyPasswordResetCode(e, c)
    \/ \E e \in EmailInputs : clearPasswordReset(e)

Spec == Init /\ [][Next]_vars

----------------------------------------------------------------------------
(* The stores shared with a second identity.                               *)
(* At the start each store holds the record of another identity, issued    *)
(* and verified at time 0 and not cleared; the handlers run for the first  *)
(* identity as before, clear runs for either, and getStats scans the store. *)

OtherPhoneRecord ==
    [OTP_NewRecord(formatPhoneNumber(OtherPhone), generateOTP(425), 0)
        EXCEPT !.attempts = 1, !.verified = TRUE, !.compared = 1, !.oks = 1]

OtherEmailRecord ==
    [Email_NewRecord(normalizeEmail(OtherEmail), normalizeEmail(OtherEmail),
                     generateVerificationCode(425), 0)
        EXCEPT !.attempts = 1, !.verified = TRUE, !.compared = 1, !.oks = 1]

\* the first identity under one spelling, one generated code, and the codes
\* submitted: that one and one never generated
FirstPhone == <<"9", "8", "7", "6", "5", "4", "3", "2", "1", "0">>

FirstEmail == <<" ", "A", "@", "X">>

FrameRands == {425}

FrameCodes == {generateOTP(425), <<"0", "0", "0", "0", "0", "0">>}

FramePhones == {FirstPhone, OtherPhone}

FrameEmails == {FirstEmail, OtherEmail}

InitFrame ==
    /\ now = 0
    /\ ticks = 0
    /\ flow \in {"otp", "email"}
    /\ otpStorage = {OtherPhoneRecord}
    /\ verificationStorage = {OtherEmailRecord}
    /\ inflight = EmptyBag
    /\ result = Response("none", <<>>, "none", 0, FALSE)
    /\ lastIssue = [k \in Keys \cup OtherKeys |-> NoIssue]
    /\ flights = SampleFlights(MaxSeats)
    /\ bookings = {}

NextFrame ==
    \/ \E d \in ClockSteps : Tick(d)
    \/ \E r \in FrameRands : sendOTP(FirstPhone, r)
    \/ \E c \in BagToSet(inflight), a \in DeliveryOutcomes : sendOTP_resume(c, a)
    \/ \E c \in FrameCodes : verifyOTP(FirstPhone, c)
    \/ \E p \in FramePhones : clearOTP(p)
    \/ \E r \in FrameRands : sendVerificationCode(FirstEmail, r)
    \/ \E c \in BagToSet(inflight), a \in DeliveryOutcomes :
           sendVerificationCode_resume(c, a)
    \/ \E c \in FrameCodes : verifyCode(FirstEmail, c)
    \/ \E e \in FrameEmails : clearVerification(e)
    \/ OTP_getStats
    \/ Email_getStats

SpecFrame == InitFrame /\ [][NextFrame]_vars

----------------------------------------------------------------------------
(* Email verification and password reset in one behaviour.                 *)
(* verificationStorage is one Map for both purposes.  Verification codes   *)
(* are requested for an address that starts with "reset_", password reset  *)
(* codes for the address that follows that prefix.                         *)

AliasEmail == <<"r", "e", "s", "e", "t", "_", "a", "@", "x">>

PlainEmail == <<"a", "@", "x">>

InitShared ==
    /\ now = 0
    /\ ticks = 0
    /\ flow = "shared"
    /\ otpStorage = {}
    /\ verificationStorage = {}
    /\ inflight = EmptyBag
    /\ result = Response("none", <<>>, "none", 0, FALSE)
    /\ lastIssue = [k \in Keys \cup OtherKeys |-> NoIssue]
    /\ flights = SampleFlights(MaxSeats)
    /\ bookings = {}

NextShared ==
    \/ \E d \in ClockSteps : Tick(d)
    \/ \E r \in FrameRands : sendVerificationCode(AliasEmail, r)
    \/ \E c \in BagToSet(inflight), a \in DeliveryOutcomes :
           sendVerificationCode_resume(c, a)
    \/ \E c \in FrameCodes : verifyCode(AliasEmail, c)
    \/ clearVerification(AliasEmail)
    \/ \E r \in FrameRands : sendPasswordResetCode(PlainEmail, r)
    \/ \E c \in BagToSet(inflight), a \in DeliveryOutcomes :
           sendPasswordResetCode_resume(c, a)
    \/ \E c \in FrameCodes : verifyPasswordResetCode(PlainEmail, c)
    \/ clearPasswordReset(PlainEmail)

SpecShared == InitShared /\ [][NextShared]_vars

----------------------------------------------------------------------------
(* Both purposes for one address: verification and password reset *)

\* one call awaits its delivery at a time, the clock advances by one
\* millisecond less than the TTL, and the reset code is verified with wrong
\* codes only
NextBoth ==
    \/ Tick(FlowTTL - 1)
    \/ \E r \in FrameRands :
           inflight = EmptyBag /\ sendVerificationCode(PlainEmail, r)
    \/ \E c \in BagToSet(inflight), a \in DeliveryOutcomes :
           sendVerificationCode_resume(c, a)
    \/ \E c \in FrameCodes : verifyCode(PlainEmail, c)
    \/ clearVerification(PlainEmail)
    \/ \E r \in FrameRands :
           inflight = EmptyBag /\ sendPasswordResetCode(PlainEmail, r)
    \/ \E c \in BagToSet(inflight), a \in DeliveryOutcomes :
           sendPasswordResetCode_resume(c, a)
    \/ \E c \in FrameCodes \ {generateVerificationCode(r) : r \in FrameRands} :
           verifyPasswordResetCode(PlainEmail, c)
    \/ clearPasswordReset(PlainEmail)

SpecBoth == InitShared /\ [][NextBoth]_vars

----------------------------------------------------------------------------
(* Issue calls alone: send and clear, no verify call *)

NextOverlap ==
    \/ \E d \in ClockSteps : Tick(d)
    \/ \E p \in PhoneInputs, r \in RandSamples : sendOTP(p, r)
    \/ \E c \in BagToSet(inflight), a \in DeliveryOutcomes : sendOTP_resume(c, a)
    \/ \E p \in PhoneInputs : clearOTP(p)
    \/ \E e \in EmailInputs, r \in RandSamples : sendVerificationCode(e, r)
    \/ \E c \in BagToSet(inflight), a \in DeliveryOutcomes :
           sendVerificationCode_resume(c, a)
    \/ \E e \in EmailInputs : clearVerification(e)
    \/ \E e \in EmailInputs, r \in RandSamples : sendPasswordResetCode(e, r)
    \/ \E c \in BagToSet(inflight), a \in DeliveryOutcomes :
           sendPasswordResetCode_resume(c, a)
    \/ \E e \in EmailInputs : clearPasswordReset(e)

SpecOverlap == Init /\ [][NextOverlap]_vars

----------------------------------------------------------------------------
(* AuthService: the verify calls of the three flows, each followed by awaits *)
(* of external services and then by clear                                   *)

\* what supabase.auth.signUp does: an account, an error object, an exception
SignUpOutcomes == {"created", "error", "throws"}

\* what storage.getUserByEmail and the awaits after it do
LookupOutcomes == {"found", "missing", "throws"}

\* newPassword as submitted: five and six characters
NewPasswords ==
    { <<"s", "e", "c", "r", "t">>, <<"s", "e", "c", "r", "e", "t">> }

\* the phone number in the international format sendPhoneOTP accepts
AuthPhone == <<"+", "9", "1", "9", "8", "7", "6", "5", "4", "3", "2", "1", "0">>

\* a call suspended after its verify step succeeded
AuthCall(op, k, dest, code) ==
    [op |-> op, key |-> k, dest |-> dest, code |-> code, latest |-> FALSE]

\* verifyPhoneOTP up to its await of supabase.auth.signUp
verifyPhoneOTP(phoneNumber, otp) ==
    /\ flow = "otp"
    /\ LET v == OTP_verify(otpStorage, phoneNumber, otp, now)
           formattedPhone == formatPhoneNumber(phoneNumber)
       IN
       /\ otpStorage' = v.storage
       /\ lastIssue' = Touch(formattedPhone,
                             IF v.outcome = "max_attempts" THEN "cap" ELSE "touched")
       /\ IF v.outcome # "ok" THEN
              /\ result' = Response("verifyPhoneOTP", formattedPhone, v.outcome,
                                    v.n, FALSE)
              /\ UNCHANGED inflight
          ELSE
              /\ BagCardinality(inflight) < MaxInflight
              /\ inflight' = inflight (+) SetToBag({
                     AuthCall("verifyPhoneOTP", formattedPhone, phoneNumber, otp)})
              /\ UNCHANGED result
    /\ UNCHANGED <<now, ticks, flow, verificationStorage, flights, bookings>>

\* verifyPhoneOTP after its await: whatever signUp did, clearOTP and a token
verifyPhoneOTP_resume(call, signUp) ==
    /\ call.op = "verifyPhoneOTP"
    /\ inflight' = Resume(call)
    /\ LET formattedPhone == formatPhoneNumber(call.dest) IN
       /\ otpStorage' = MapDelete(otpStorage, formattedPhone)
       /\ result' = Response("verifyPhoneOTP", formattedPhone, "token", 0,
                             MapHas(otpStorage, formattedPhone))
       /\ lastIssue' = Touch(formattedPhone, "clear")
    /\ UNCHANGED <<now, ticks, flow, verificationStorage, flights, bookings>>

\* verifyEmail up to its await of storage.getUserByEmail
verifyEmail(email, code) ==
    /\ flow = "email"
    /\ LET v == Email_verify(verificationStorage, email, code, now)
           k == normalizeEmail(email)
       IN
       /\ verificationStorage' = v.storage
       /\ lastIssue' = Touch(k, IF v.outcome = "max_attempts" THEN "cap"
                                ELSE "touched")
       /\ IF v.outcome # "ok" THEN
              /\ result' = Response("verifyEmail", k, v.outcome, v.n, FALSE)
              /\ UNCHANGED inflight
          ELSE
              /\ BagCardinality(inflight) < MaxInflight
              /\ inflight' = inflight (+) SetToBag({
                     AuthCall("verifyEmail", k, email, code)})
              /\ UNCHANGED result
    /\ UNCHANGED <<now, ticks, flow, otpStorage, flights, bookings>>

\* verifyEmail after its awaits: without a user, or when an await throws, it
\* fails and leaves the record; otherwise clearVerification and success
verifyEmail_resume(call, lookup) ==
    /\ call.op = "verifyEmail"
    /\ inflight' = Resume(call)
    /\ LET k == normalizeEmail(call.dest) IN
       IF lookup = "found" THEN
           /\ verificationStorage' = MapDelete(verificationStorage, k)
           /\ result' = Response("verifyEmail", k, "email_verified", 0,
                                 MapHas(verificationStorage, k))
           /\ lastIssue' = Touch(k, "clear")
       ELSE
           /\ result' = Response("verifyEmail", k,
                                 IF lookup = "missing" THEN "user_not_found"
                                 ELSE "failed", 0,
                                 MapHas(verificationStorage, k))
           /\ UNCHANGED <<verificationStorage, lastIssue, flights, bookings>>
    /\ UNCHANGED <<now, ticks, flow, otpStorage, flights, bookings>>

\* resetPassword up to its await of storage.getUserByEmail
resetPassword(email, code, newPassword) ==
    /\ flow = "reset"
    /\ LET v == Reset_verify(verificationStorage, email, code, now)
           k == resetKey(normalizeEmail(email))
       IN
       /\ verificationStorage' = v.storage
       /\ lastIssue' = Touch(k, IF v.outcome = "max_attempts" THEN "cap"
                                ELSE "touched")
       /\ IF v.outcome # "ok" THEN
              /\ result' = Response("resetPassword", k, v.outcome, v.n, FALSE)
              /\ UNCHANGED inflight
          ELSE
              /\ BagCardinality(inflight) < MaxInflight
              /\ inflight' = inflight (+) SetToBag({
                     [op |-> "resetPassword", key |-> k, dest |-> email,
                      code |-> code, latest |-> FALSE,
                      newPassword |-> newPassword]})
              /\ UNCHANGED result
    /\ UNCHANGED <<now, ticks, flow, otpStorage, flights, bookings>>

\* resetPassword after its awaits: without a user, with a password shorter
\* than six characters, or when an await throws, it fails and leaves the
\* record; otherwise clearPasswordReset and success
resetPassword_resume(call, lookup) ==
    /\ call.op = "resetPassword"
    /\ inflight' = Resume(call)
    /\ LET k == resetKey(normalizeEmail(call.dest))
           tooShort == Len(call.newPassword) < 6
       IN
       IF lookup = "found" /\ ~tooShort THEN
           /\ verificationStorage' = MapDelete(verificationStorage, k)
           /\ result' = Response("resetPassword", k, "password_reset", 0,
                                 MapHas(verificationStorage, k))
           /\ lastIssue' = Touch(k, "clear")
       ELSE
           /\ result' = Response("resetPassword", k,
                                 IF lookup = "missing" THEN "user_not_found"
                                 ELSE IF lookup = "found" THEN "short_password"
                                 ELSE "failed", 0,
                                 MapHas(verificationStorage, k))
           /\ UNCHANGED <<verificationStorage, lastIssue, flights, bookings>>
    /\ UNCHANGED <<now, ticks, flow, otpStorage, flights, bookings>>

NextAuth ==
    \/ \E d \in ClockSteps : Tick(d)
    \/ \E r \in FrameRands : sendOTP(AuthPhone, r)
    \/ \E c \in BagToSet(inflight), a \in DeliveryOutcomes : sendOTP_resume(c, a)
    \/ \E c \in FrameCodes : verifyPhoneOTP(AuthPhone, c)
    \/ \E c \in BagToSet(inflight), o \in SignUpOutcomes :
           verifyPhoneOTP_resume(c, o)
    \/ \E r \in FrameRands : sendVerificationCode(PlainEmail, r)
    \/ \E c \in BagToSet(inflight), a \in DeliveryOutcomes :
           sendVerificationCode_resume(c, a)
    \/ \E c \in FrameCodes : verifyEmail(PlainEmail, c)
    \/ \E c \in BagToSet(inflight), o \in LookupOutcomes : verifyEmail_resume(c, o)
    \/ \E r \in FrameRands : sendPasswordResetCode(PlainEmail, r)
    \/ \E c \in BagToSet(inflight), a \in DeliveryOutcomes :
           sendPasswordResetCode_resume(c, a)
    \/ \E c \in FrameCodes, w \in NewPasswords : resetPassword(PlainEmail, c, w)
    \/ \E c \in BagToSet(inflight), o \in LookupOutcomes :
           resetPassword_resume(c, o)

SpecAuth == Init /\ [][NextAuth]_vars

----------------------------------------------------------------------------
(* AuthService.requestPasswordReset *)

\* 'If an account with this email exists, a password reset code has been sent.'
GenericResetMessage == "if an account exists, a reset code has been sent"

\* the answer of requestPasswordReset: what the caller sees is success and
\* message; "user" and "issue" record which run it was: whether the account
\* was found, and what sendPasswordResetCode answered ("none" if not called,
\* "threw" if the lookup of the account threw)
ResetRequestResponse(k, success, message, user, issue) ==
    [op |-> "requestPasswordReset", key |-> k,
     outcome |-> IF success THEN "answered" ELSE "failed", n |-> 0,
     hist |-> FALSE, success |-> success, message |-> message,
     user |-> user, issue |-> issue]

\* the answer passing on the refusal or failure of sendPasswordResetCode
requestPasswordReset_answer_Forwarded(k, user, issue) ==
    IF user /\ issue # "sent"
    THEN ResetRequestResponse(k, FALSE, issue, user, issue)
    ELSE ResetRequestResponse(k, TRUE, GenericResetMessage, user, issue)

\* the answer without an account, and after sendPasswordResetCode has
\* answered: the same object, the send result is not read
requestPasswordReset_answer(k, user, issue) ==
    ResetRequestResponse(k, TRUE, GenericResetMessage, user, issue)

\* requestPasswordReset from the answer of storage.getUserByEmail up to the
\* await of the delivery inside sendPasswordResetCode
requestPasswordReset(email, lookup, r) ==
    /\ flow = "reset"
    /\ LET swept == cleanupExpiredCodes(verificationStorage, now)
           normalizedEmail == normalizeEmail(email)
           k == resetKey(normalizedEmail)
           code == generateVerificationCode(r)
       IN
       IF lookup = "throws" THEN
           /\ result' = ResetRequestResponse(k, FALSE, "failed", FALSE, "threw")
           /\ UNCHANGED <<verificationStorage, inflight, lastIssue, flights, bookings>>
       ELSE IF lookup = "missing" THEN
           /\ result' = requestPasswordReset_answer(k, FALSE, "none")
           /\ UNCHANGED <<verificationStorage, inflight, lastIssue, flights, bookings>>
       ELSE IF Email_RateLimited(swept, k, now) THEN
           /\ verificationStorage' = swept
           /\ result' = requestPasswordReset_answer(k, TRUE, "rate_limited")
           /\ lastIssue' = Touch(k, "touched")
           /\ UNCHANGED inflight
       ELSE
           /\ BagCardinality(inflight) < MaxInflight
           /\ verificationStorage' =
                  MapSet(swept, k, Email_NewRecord(k, normalizedEmail, code, now))
           /\ inflight' = Suspend("requestPasswordReset", k, normalizedEmail, code)
           /\ lastIssue' = Stored(k, Email_expiresAt(now))
           /\ UNCHANGED result
    /\ UNCHANGED <<now, ticks, flow, otpStorage, flights, bookings>>

\* requestPasswordReset after the delivery: sendPasswordResetCode rolls back
\* on failure, and requestPasswordReset answers
requestPasswordReset_resume(call, delivered) ==
    /\ call.op = "requestPasswordReset"
    /\ inflight' = Resume(call)
    /\ IF ~delivered THEN
           /\ verificationStorage' = MapDelete(verificationStorage, call.key)
           /\ result' = requestPasswordReset_answer(call.key, TRUE,
                                                    "delivery_failed")
           /\ lastIssue' = Touch(call.key, "rollback")
       ELSE
           /\ result' = requestPasswordReset_answer(call.key, TRUE, "sent")
           /\ lastIssue' = Returned(call)
           /\ UNCHANGED verificationStorage
    /\ UNCHANGED <<now, ticks, flow, otpStorage, flights, bookings>>

InitRequest == Init /\ flow = "reset"

NextRequest ==
    \/ \E d \in ClockSteps : Tick(d)
    \/ \E o \in LookupOutcomes, r \in FrameRands :
           requestPasswordReset(PlainEmail, o, r)
    \/ \E c \in BagToSet(inflight), a \in DeliveryOutcomes :
           requestPasswordReset_resume(c, a)
    \/ \E c \in FrameCodes, w \in NewPasswords : resetPassword(PlainEmail, c, w)
    \/ \E c \in BagToSet(inflight), o \in LookupOutcomes :
           resetPassword_resume(c, o)

SpecRequest == InitRequest /\ [][NextRequest]_vars

----------------------------------------------------------------------------
(* The diagnostic accessors and the test routes of the OTP service *)

\* process.env.NODE_ENV as a handler reads it
NodeEnvs == {"development", "production"}

\* null, and a property left undefined
Null == [status |-> "null"]

Undefined == [status |-> "undefined"]

\* getOTPStatus answering in every mode
getOTPStatus_Ungated(storage, phoneNumber, nodeEnv, t) ==
    LET formattedPhone == formatPhoneNumber(phoneNumber) IN
    IF ~MapHas(storage, formattedPhone) THEN [status |-> "not_found"]
    ELSE LET otpRecord == MapGet(storage, formattedPhone) IN
         [status |-> "found", phone |-> formattedPhone, otp |-> otpRecord.otp,
          expiresAt |-> otpRecord.expiresAt, attempts |-> otpRecord.attempts,
          verified |-> otpRecord.verified,
          expired |-> OTP_isExpired(otpRecord, t)]

\* OTPService.getOTPStatus
getOTPStatus(storage, phoneNumber, nodeEnv, t) ==
    IF nodeEnv # "development" THEN Null
    ELSE
    LET formattedPhone == formatPhoneNumber(phoneNumber) IN
    IF ~MapHas(storage, formattedPhone) THEN [status |-> "not_found"]
    ELSE LET otpRecord == MapGet(storage, formattedPhone) IN
         [status |-> "found", phone |-> formattedPhone, otp |-> otpRecord.otp,
          expiresAt |-> otpRecord.expiresAt, attempts |-> otpRecord.attempts,
          verified |-> otpRecord.verified,
          expired |-> OTP_isExpired(otpRecord, t)]

\* EmailVerificationService.getVerificationStatus
getVerificationStatus(storage, email, nodeEnv, t) ==
    IF nodeEnv # "development" THEN Null
    ELSE
    LET normalizedEmail == normalizeEmail(email) IN
    IF ~MapHas(storage, normalizedEmail) THEN [status |-> "not_found"]
    ELSE LET record == MapGet(storage, normalizedEmail) IN
         [status |-> "found", email |-> normalizedEmail, code |-> record.code,
          expiresAt |-> record.expiresAt, attempts |-> record.attempts,
          verified |-> record.verified,
          expired |-> Email_isExpired(record, t)]

\* the body a handler answers with: the outcome, and debug_info; "env" records
\* the mode the handler read
DebugResponse(op, k, outcome, nodeEnv, debug_info) ==
    [op |-> op, key |-> k, outcome |-> outcome, n |-> 0, hist |-> FALSE,
     env |-> nodeEnv, debug_info |-> debug_info]

\* POST /send-otp up to the await of the delivery inside OTPService.sendOTP
TestSendOTP(phone, r, nodeEnv) ==
    /\ flow = "otp"
    /\ LET swept == cleanupExpiredOTPs(otpStorage, now)
           formattedPhone == formatPhoneNumber(phone)
           otp == generateOTP(r)
       IN
       IF OTP_RateLimited(swept, formattedPhone, now) THEN
           /\ otpStorage' = swept
           /\ result' = DebugResponse("TestSendOTP", formattedPhone,
                            "rate_limited", nodeEnv,
                            IF nodeEnv = "development"
                            THEN getOTPStatus(swept, phone, nodeEnv, now)
                            ELSE Undefined)
           /\ lastIssue' = Touch(formattedPhone, "touched")
           /\ UNCHANGED inflight
       ELSE
           /\ BagCardinality(inflight) < MaxInflight
           /\ otpStorage' = MapSet(swept, formattedPhone,
                                   OTP_NewRecord(formattedPhone, otp, now))
           /\ inflight' = Suspend("TestSendOTP", formattedPhone, formattedPhone, otp)
           /\ lastIssue' = Stored(formattedPhone, OTP_expiresAt(now))
           /\ UNCHANGED result
    /\ UNCHANGED <<now, ticks, flow, verificationStorage, flights, bookings>>

\* POST /send-otp after the await: the rollback of sendOTP on failure, and the
\* body, with debug_info read from the store as it is now
TestSendOTP_resume(call, providers, nodeEnv) ==
    /\ call.op = "TestSendOTP"
    /\ inflight' = Resume(call)
    /\ IF ~SMS_sendOTP(call.dest, call.code, providers) THEN
           /\ otpStorage' = MapDelete(otpStorage, call.key)
           /\ result' = DebugResponse("TestSendOTP", call.key,
                            "delivery_failed", nodeEnv,
                            IF nodeEnv = "development"
                            THEN getOTPStatus(MapDelete(otpStorage, call.key),
                                              call.dest, nodeEnv, now)
                            ELSE Undefined)
           /\ lastIssue' = Touch(call.key, "rollback")
       ELSE
           /\ result' = DebugResponse("TestSendOTP", call.key, "sent", nodeEnv,
                            IF nodeEnv = "development"
                            THEN getOTPStatus(otpStorage, call.dest, nodeEnv, now)
                            ELSE Undefined)
           /\ lastIssue' = Returned(call)
           /\ UNCHANGED otpStorage
    /\ UNCHANGED <<now, ticks, flow, verificationStorage, flights, bookings>>

\* POST /verify-otp
TestVerifyOTP(phone, otp, nodeEnv) ==
    /\ flow = "otp"
    /\ LET v == OTP_verify(otpStorage, phone, otp, now)
           formattedPhone == formatPhoneNumber(phone)
       IN
       /\ otpStorage' = v.storage
       /\ result' = DebugResponse("TestVerifyOTP", formattedPhone, v.outcome,
                        nodeEnv,
                        IF v.outcome # "ok" /\ nodeEnv = "development"
                        THEN getOTPStatus(v.storage, phone, nodeEnv, now)
                        ELSE Undefined)
       /\ lastIssue' = Touch(formattedPhone,
                             IF v.outcome = "max_attempts" THEN "cap" ELSE "touched")
    /\ UNCHANGED <<now, ticks, flow, verificationStorage, inflight, flights, bookings>>

\* GET /otp-status/:phone
TestOtpStatus(phone, nodeEnv) ==
    /\ flow = "otp"
    /\ result' = IF nodeEnv # "development"
                 THEN DebugResponse("TestOtpStatus", formatPhoneNumber(phone),
                                    "forbidden", nodeEnv, Undefined)
                 ELSE DebugResponse("TestOtpStatus", formatPhoneNumber(phone),
                                    "status", nodeEnv,
                                    getOTPStatus(otpStorage, phone, nodeEnv, now))
    /\ UNCHANGED <<now, ticks, flow, otpStorage, verificationStorage, inflight,
                   lastIssue,
                   flights, bookings>>

\* a caller inside the server reading getVerificationStatus
VerificationStatus(email, nodeEnv) ==
    /\ flow = "email"
    /\ result' = DebugResponse("getVerificationStatus", normalizeEmail(email),
                               "status", nodeEnv,
                               getVerificationStatus(verificationStorage, email,
                                                     nodeEnv, now))
    /\ UNCHANGED <<now, ticks, flow, otpStorage, verificationStorage, inflight,
                   lastIssue,
                   flights, bookings>>

InitDebug == Init /\ flow \in {"otp", "email"}

NextDebug ==
    \/ \E d \in ClockSteps : Tick(d)
    \/ \E r \in FrameRands, m \in NodeEnvs : TestSendOTP(AuthPhone, r, m)
    \/ \E c \in BagToSet(inflight), a \in DeliveryOutcomes, m \in NodeEnvs :
           TestSendOTP_resume(c, a, m)
    \/ \E c \in FrameCodes, m \in NodeEnvs : TestVerifyOTP(AuthPhone, c, m)
    \/ \E m \in NodeEnvs : TestOtpStatus(AuthPhone, m)
    \/ \E r \in FrameRands : sendVerificationCode(PlainEmail, r)
    \/ \E c \in BagToSet(inflight), a \in DeliveryOutcomes :
           sendVerificationCode_resume(c, a)
    \/ \E c \in FrameCodes : verifyCode(PlainEmail, c)
    \/ \E m \in NodeEnvs : VerificationStatus(PlainEmail, m)

SpecDebug == InitDebug /\ [][NextDebug]_vars

----------------------------------------------------------------------------
(* isOTPVerified and isEmailVerified *)

\* isOTPVerified without the expiry test
isOTPVerified_Unexpiring(storage, phoneNumber, t) ==
    LET formattedPhone == formatPhoneNumber(phoneNumber) IN
    /\ MapHas(storage, formattedPhone)
    /\ MapGet(storage, formattedPhone).verified

\* otpRecord !== undefined && otpRecord.verified && !this.isExpired(otpRecord)
isOTPVerified(storage, phoneNumber, t) ==
    LET formattedPhone == formatPhoneNumber(phoneNumber) IN
    /\ MapHas(storage, formattedPhone)
    /\ MapGet(storage, formattedPhone).verified
    /\ ~OTP_isExpired(MapGet(storage, formattedPhone), t)

\* record !== undefined && record.verified && !this.isExpired(record)
isEmailVerified(storage, email, t) ==
    LET normalizedEmail == normalizeEmail(email) IN
    /\ MapHas(storage, normalizedEmail)
    /\ MapGet(storage, normalizedEmail).verified
    /\ ~Email_isExpired(MapGet(storage, normalizedEmail), t)

\* a call of isOTPVerified: its answer is in "hist"
CheckOTPVerified(phoneNumber) ==
    /\ flow = "otp"
    /\ result' = Response("isOTPVerified", formatPhoneNumber(phoneNumber),
                          "answered", 0,
                          isOTPVerified(otpStorage, phoneNumber, now))
    /\ UNCHANGED <<now, ticks, flow, otpStorage, verificationStorage, inflight,
                   lastIssue,
                   flights, bookings>>

\* a call of isEmailVerified
CheckEmailVerified(email) ==
    /\ flow = "email"
    /\ result' = Response("isEmailVerified", normalizeEmail(email),
                          "answered", 0,
                          isEmailVerified(verificationStorage, email, now))
    /\ UNCHANGED <<now, ticks, flow, otpStorage, verificationStorage, inflight,
                   lastIssue,
                   flights, bookings>>

InitQuery == Init /\ flow \in {"otp", "email"}

NextQuery ==
    \/ \E d \in ClockSteps : Tick(d)
    \/ \E r \in FrameRands : sendOTP(FirstPhone, r)
    \/ \E c \in BagToSet(inflight), a \in DeliveryOutcomes : sendOTP_resume(c, a)
    \/ \E c \in FrameCodes : verifyOTP(FirstPhone, c)
    \/ clearOTP(FirstPhone)
    \/ \E p \in PhoneInputs : CheckOTPVerified(p)
    \/ \E r \in FrameRands : sendVerificationCode(FirstEmail, r)
    \/ \E c \in BagToSet(inflight), a \in DeliveryOutcomes :
           sendVerificationCode_resume(c, a)
    \/ \E c \in FrameCodes : verifyCode(FirstEmail, c)
    \/ clearVerification(FirstEmail)
    \/ \E e \in EmailInputs : CheckEmailVerified(e)

SpecQuery == InitQuery /\ [][NextQuery]_vars

----------------------------------------------------------------------------
(* The code generators on their own *)

\* every numerator of Math.random() at the resolution RandDen
AllRands == 0 .. (RandDen - 1)

\* the answer of a generator: the code, and in "n" the numerator drawn
Generated(op, r, code) ==
    [op |-> op, key |-> <<>>, outcome |-> "generated", n |-> r, hist |-> FALSE,
     code |-> code]

GenerateOTP(r) ==
    /\ flow = "otp"
    /\ result' = Generated("generateOTP", r, generateOTP(r))
    /\ UNCHANGED <<now, ticks, flow, otpStorage, verificationStorage, inflight,
                   lastIssue,
                   flights, bookings>>

GenerateVerificationCode(r) ==
    /\ flow = "email"
    /\ result' = Generated("generateVerificationCode", r,
                           generateVerificationCode(r))
    /\ UNCHANGED <<now, ticks, flow, otpStorage, verificationStorage, inflight,
                   lastIssue,
                   flights, bookings>>

InitGenerate == Init /\ flow \in {"otp", "email"}

NextGenerate ==
    \/ \E r \in AllRands : GenerateOTP(r)
    \/ \E r \in AllRands : GenerateVerificationCode(r)

SpecGenerate == InitGenerate /\ [][NextGenerate]_vars

----------------------------------------------------------------------------
(* Vocabulary of the properties *)

VerifyOps == {"verifyOTP", "verifyCode", "verifyPasswordResetCode"}

SendOps == {"sendOTP", "sendVerificationCode", "sendPasswordResetCode"}

ClearOps == {"clearOTP", "clearVerification", "clearPasswordReset"}

\* every entry of either store; the stores' keys are disjoint
Entries == otpStorage \cup verificationStorage

\* the attempt cap that applies to an entry
CapOf(e) == IF e \in otpStorage THEN OTP_MAX_ATTEMPTS ELSE CODE_MAX_ATTEMPTS

\* the last finished call was a verify call on entry e: a verify call for
\* e's key, with no record stored under the key since
LastVerified(e) ==
    /\ result.op \in VerifyOps
    /\ result.key = e.key
    /\ lastIssue[e.key].since # "quiet"

\* what every step of a verify call has, and every step of a send call up to
\* its await: the properties about such steps look at these steps only
VerifyStep == now' = now /\ inflight' = inflight /\ result'.op \in VerifyOps

SendStep == now' = now /\ (inflight' # inflight \/ result'.op \in SendOps)

----------------------------------------------------------------------------
(* C1 *)

\* C1: for phone OTP and email verification, no record is ever verified
\* successfully more than once, and on a record that has been verified and is
\* not expired, a verify call with the stored code answers "already used" and
\* leaves the store as it is.
Thm_C1 ==
    /\ \A e \in otpStorage :
        /\ e.oks <= 1
        /\ (e.verified /\ ~(now > e.expiresAt)) =>
             \A p \in PhoneInputs :
                formatPhoneNumber(p) = e.key =>
                    LET v == OTP_verify(otpStorage, p, e.otp, now) IN
                    v.outcome = "already_used" /\ v.storage = otpStorage
    /\ flow = "email" =>
        \A e \in verificationStorage :
            /\ e.oks <= 1
            /\ (e.verified /\ ~(now > e.expiresAt)) =>
                 \A a \in EmailInputs :
                    normalizeEmail(a) = e.key =>
                        LET v == Email_verify(verificationStorage, a, e.code, now) IN
                        v.outcome = "already_used" /\ v.storage = verificationStorage

\* a verify call has answered "already used" on a record verified once
Wit_C1 ==
    \E e \in otpStorage :
        /\ LastVerified(e)
        /\ result.outcome = "already_used"
        /\ e.oks = 1

----------------------------------------------------------------------------
(* C2 *)

\* C2: for password reset, no record is ever verified successfully more than
\* once.
CE_C2 ==
    flow = "reset" => \A e \in verificationStorage : e.oks <= 1

----------------------------------------------------------------------------
(* C3 *)

\* C3: during a record's lifetime at most maxAttempts verify calls pass the
\* attempt gate and reach the comparison (3 for phone OTP, 5 for email
\* verification and password reset).  A verify call runs to completion without
\* yielding, so no two calls read the same value of attempts at the gate.
Thm_C3 == \A e \in Entries : e.compared <= CapOf(e)

\* the maxAttempts-th comparison on a record has been made
Wit_C3 ==
    \E e \in Entries :
        /\ LastVerified(e)
        /\ result.outcome = "mismatch"
        /\ e.compared = CapOf(e)

----------------------------------------------------------------------------
(* C4 *)

\* C4: once the maxAttempts-th consecutive wrong verify call on a record whose
\* issuance succeeded has returned, the store holds no record for the key.
CE_C4 ==
    \A e \in Entries :
        ~ /\ LastVerified(e)
          /\ result.outcome = "mismatch"
          /\ lastIssue[e.key].ok
          /\ e.attempts = CapOf(e)
          /\ e.oks = 0

----------------------------------------------------------------------------
(* C5 *)

\* the verify call of k's flow, applied to the stores as they are
VerifyOutcomes(k) ==
    {OTP_verify(otpStorage, p, c, now).outcome :
        p \in {q \in PhoneInputs : formatPhoneNumber(q) = k}, c \in SubmittedCodes}
    \cup {Email_verify(verificationStorage, a, c, now).outcome :
        a \in {b \in EmailInputs : normalizeEmail(b) = k}, c \in SubmittedCodes}
    \cup {Reset_verify(verificationStorage, a, c, now).outcome :
        a \in {b \in EmailInputs : resetKey(normalizeEmail(b)) = k},
        c \in SubmittedCodes}

----------------------------------------------------------------------------
(* C6 *)

\* the stores and answer of k's verify call for every spelling of k and
\* every submitted code, applied to the stores as they are
VerifyResults(k) ==
    {[left |-> MapHas(v.storage, k), outcome |-> v.outcome] :
        v \in {OTP_verify(otpStorage, p, c, now) :
                 p \in {q \in PhoneInputs : formatPhoneNumber(q) = k},
                 c \in SubmittedCodes}}
    \cup {[left |-> MapHas(v.storage, k), outcome |-> v.outcome] :
        v \in {Email_verify(verificationStorage, a, c, now) :
                 a \in {b \in EmailInputs : normalizeEmail(b) = k},
                 c \in SubmittedCodes}}
    \cup {[left |-> MapHas(v.storage, k), outcome |-> v.outcome] :
        v \in {Reset_verify(verificationStorage, a, c, now) :
                 a \in {b \in EmailInputs : resetKey(normalizeEmail(b)) = k},
                 c \in SubmittedCodes}}

\* C6: a verify call made when the clock is past the record's expiresAt
\* answers "expired" and deletes the record, whatever the submitted code and
\* the record's attempts and verified; once the record is gone (deleted by
\* that call or by a sweep) a verify call answers "not found".  So no verify
\* call past expiresAt answers success.
Thm_C6 ==
    /\ \A e \in Entries :
          now > e.expiresAt =>
             VerifyResults(e.key) = {[left |-> FALSE, outcome |-> "expired"]}
    /\ \A k \in Keys :
          ~MapHas(Entries, k) =>
             VerifyResults(k) = {[left |-> FALSE, outcome |-> "not_found"]}
    /\ \A e \in Entries :
          ~(LastVerified(e) /\ result.outcome = "expired")

\* a verify call has answered "expired" on a record whose issuance had succeeded
Wit_C6 ==
    /\ result.op \in VerifyOps
    /\ result.outcome = "expired"
    /\ ~MapHas(Entries, result.key)
    /\ lastIssue[result.key].ok

----------------------------------------------------------------------------
(* C7 *)

\* C7: a send call for a key whose previous send call has returned success,
\* made within that record's TTL with no other call on the key in between, is
\* refused as rate-limited: it suspends no delivery (so generates and hands
\* over no code) and leaves the stored record as it is.
Thm_C7 ==
    [][ /\ \A p \in PhoneInputs, r \in RandSamples :
             (sendOTP(p, r) /\ BackToBack(formatPhoneNumber(p), now)) =>
                /\ result'.outcome = "rate_limited"
                /\ inflight' = inflight
                /\ otpStorage' = otpStorage
        /\ \A a \in EmailInputs, r \in RandSamples :
             (sendVerificationCode(a, r) /\ BackToBack(normalizeEmail(a), now)) =>
                /\ result'.outcome = "rate_limited"
                /\ inflight' = inflight
                /\ verificationStorage' = verificationStorage
        /\ \A a \in EmailInputs, r \in RandSamples :
             (sendPasswordResetCode(a, r)
                 /\ BackToBack(resetKey(normalizeEmail(a)), now)) =>
                /\ result'.outcome = "rate_limited"
                /\ inflight' = inflight
                /\ verificationStorage' = verificationStorage
      ]_vars

\* a send call made back-to-back after a successful one has been refused
Wit_C7 ==
    /\ result.op \in SendOps
    /\ result.outcome = "rate_limited"
    /\ result.hist
    /\ MapHas(Entries, result.key)

----------------------------------------------------------------------------
(* C8 *)

\* C8: a send call that stores a record and returns success does not follow
\* a successful issuance for the same key within that issuance's TTL unless
\* clear has been called for the key in between.
CE_C8 ==
    (result.op \in SendOps /\ result.outcome = "sent") => ~result.hist

\* a send call for k, made now, would be refused as rate-limited
SendRefused(k) ==
    IF k \in PhoneKeys
    THEN OTP_RateLimited(cleanupExpiredOTPs(otpStorage, now), k, now)
    ELSE Email_RateLimited(cleanupExpiredCodes(verificationStorage, now), k, now)

\* C8 as amended: while the last successful issuance for a key is within its
\* TTL, and neither clear, nor a verify call that found the attempts used up,
\* nor the rollback of a failed delivery has removed its record, the record is
\* still stored and a send call for the key is refused; verify calls that do
\* not use up the attempts change nothing of this.
Thm_C8 ==
    \A k \in Keys :
        Held(k, now) =>
            /\ MapHas(Entries, k)
            /\ MapGet(Entries, k).expiresAt = lastIssue[k].expiresAt
            /\ SendRefused(k)

\* a second issuance has succeeded within the TTL of the first, with no clear
Wit_C8 ==
    /\ result.op \in SendOps
    /\ result.outcome = "sent"
    /\ result.hist

----------------------------------------------------------------------------
(* C9 *)

\* the TTL, in minutes, of the codes a send operation issues
TTLMinutes(op) ==
    IF op = "sendOTP" THEN OTP_EXPIRY_MINUTES ELSE CODE_EXPIRY_MINUTES

\* C9: the wait reported by a send call refused as rate-limited is more than 0
\* and at most the TTL, in minutes.
CE_C9 ==
    (result.op \in SendOps /\ result.outcome = "rate_limited") =>
        (0 < result.n /\ result.n <= TTLMinutes(result.op))

----------------------------------------------------------------------------
(* C10 *)

\* the records stored under k that are neither expired nor verified
Live(storage, k) ==
    {e \in storage : e.key = k /\ ~(now > e.expiresAt) /\ ~e.verified}

\* C10: each store holds, for each key, at most one record that is neither
\* expired nor verified.
Thm_C10 ==
    \A k \in Keys :
        /\ Cardinality(Live(otpStorage, k)) <= 1
        /\ Cardinality(Live(verificationStorage, k)) <= 1

\* a send call has returned success after an earlier record of the key had
\* been counted against, and its record is the one live record of the key
Wit_C10 ==
    /\ result.op \in SendOps
    /\ result.outcome = "sent"
    /\ result.hist
    /\ Cardinality(Live(Entries, result.key)) = 1

----------------------------------------------------------------------------
(* C11 *)

\* C11: in all three flows, a send call whose delivery adapter answers
\* non-success returns a failure, and when it has returned the store holds no
\* record for its key, so that a send call for the key made next is not
\* refused as rate-limited.
Thm_C11 ==
    [][ \A c \in BagToSet(inflight) :
          /\ sendOTP_resume(c, FALSE) =>
                /\ result'.outcome = "delivery_failed"
                /\ ~MapHas(otpStorage', c.key)
                /\ ~OTP_RateLimited(cleanupExpiredOTPs(otpStorage', now'),
                                    c.key, now')
          /\ sendVerificationCode_resume(c, FALSE) =>
                /\ result'.outcome = "delivery_failed"
                /\ ~MapHas(verificationStorage', c.key)
                /\ ~Email_RateLimited(cleanupExpiredCodes(verificationStorage', now'),
                                      c.key, now')
          /\ sendPasswordResetCode_resume(c, FALSE) =>
                /\ result'.outcome = "delivery_failed"
                /\ ~MapHas(verificationStorage', c.key)
                /\ ~Email_RateLimited(cleanupExpiredCodes(verificationStorage', now'),
                                      c.key, now')
      ]_vars

\* a send call has returned the failure of its delivery, its record is gone
Wit_C11 ==
    /\ result.op \in SendOps
    /\ result.outcome = "delivery_failed"
    /\ lastIssue[result.key].since = "rollback"
    /\ ~MapHas(Entries, result.key)

----------------------------------------------------------------------------
(* C12 *)

\* C12: whatever the state of the record under a key (active, verified,
\* attempts used up, expired), when clear has returned the store holds no
\* record for the key, a verify call made next answers "not found", and a send
\* call made next is not refused and stores a record with attempts = 0 and
\* verified = false.
Thm_C12 ==
    [][ /\ \A p \in PhoneInputs :
             clearOTP(p) =>
                LET k == formatPhoneNumber(p)
                    swept == cleanupExpiredOTPs(otpStorage', now')
                IN
                /\ ~MapHas(otpStorage', k)
                /\ \A q \in PhoneInputs, c \in SubmittedCodes :
                      formatPhoneNumber(q) = k =>
                         OTP_verify(otpStorage', q, c, now').outcome = "not_found"
                /\ ~OTP_RateLimited(swept, k, now')
                /\ \A r \in RandSamples :
                      LET rec == MapGet(MapSet(swept, k,
                                     OTP_NewRecord(k, generateOTP(r), now')), k)
                      IN rec.attempts = 0 /\ ~rec.verified
        /\ \A a \in EmailInputs :
             clearVerification(a) =>
                LET k == normalizeEmail(a)
                    swept == cleanupExpiredCodes(verificationStorage', now')
                IN
                /\ ~MapHas(verificationStorage', k)
                /\ \A b \in EmailInputs, c \in SubmittedCodes :
                      normalizeEmail(b) = k =>
                         Email_verify(verificationStorage', b, c, now').outcome
                            = "not_found"
                /\ ~Email_RateLimited(swept, k, now')
                /\ \A r \in RandSamples :
                      LET rec == MapGet(MapSet(swept, k,
                                     Email_NewRecord(k, k,
                                         generateVerificationCode(r), now')), k)
                      IN rec.attempts = 0 /\ ~rec.verified
        /\ \A a \in EmailInputs :
             clearPasswordReset(a) =>
                LET k == resetKey(normalizeEmail(a))
                    swept == cleanupExpiredCodes(verificationStorage', now')
                IN
                /\ ~MapHas(verificationStorage', k)
                /\ \A b \in EmailInputs, c \in SubmittedCodes :
                      resetKey(normalizeEmail(b)) = k =>
                         Reset_verify(verificationStorage', b, c, now').outcome
                            = "not_found"
                /\ ~Email_RateLimited(swept, k, now')
                /\ \A r \in RandSamples :
                      LET rec == MapGet(MapSet(swept, k,
                                     Email_NewRecord(k, normalizeEmail(a),
                                         generateVerificationCode(r), now')), k)
                      IN rec.attempts = 0 /\ ~rec.verified
      ]_vars

\* clear has removed a record, and the key has no record
Wit_C12 ==
    /\ result.op \in ClearOps
    /\ result.hist
    /\ lastIssue[result.key].since = "clear"
    /\ ~MapHas(Entries, result.key)

----------------------------------------------------------------------------
(* C13 *)

\* C13: clear for a key that has no record returns normally and leaves the
\* store, with the records of all other keys, as it is.
Thm_C13 ==
    [][ /\ \A p \in FramePhones :
             (clearOTP(p) /\ ~MapHas(otpStorage, formatPhoneNumber(p))) =>
                /\ result'.outcome = "cleared"
                /\ otpStorage' = otpStorage
        /\ \A a \in FrameEmails :
             (clearVerification(a)
                 /\ ~MapHas(verificationStorage, normalizeEmail(a))) =>
                /\ result'.outcome = "cleared"
                /\ verificationStorage' = verificationStorage
      ]_vars

\* clear has run for a key that had no record while the store held the
\* record of another key, stored and used before
Wit_C13 ==
    /\ result.op \in ClearOps
    /\ ~result.hist
    /\ \E e \in (IF result.op = "clearOTP" THEN otpStorage
                 ELSE verificationStorage) :
          /\ e.key # result.key
          /\ (e \in {OtherPhoneRecord, OtherEmailRecord}
                \/ lastIssue[e.key].since # "quiet")

----------------------------------------------------------------------------
(* C14 *)

\* C14: verifyOTP and verifyCode answer by the first check that applies, in
\* the order: no record, "not found"; expired, "expired" and the record is
\* deleted; verified, "already used" and the record is kept as it is;
\* attempts used up, "maximum attempts exceeded" and the record is deleted;
\* otherwise the codes are compared.  So an expired record answers "expired"
\* also when verified or exhausted, and a verified record whose attempts equal
\* the cap answers "already used" and stays.
Thm_C14 ==
    /\ \A p \in PhoneInputs, c \in SubmittedCodes :
          LET k == formatPhoneNumber(p)
              v == OTP_verify(otpStorage, p, c, now)
          IN
          IF \A e \in otpStorage : e.key # k
          THEN v.outcome = "not_found" /\ v.storage = otpStorage
          ELSE \A e \in otpStorage :
                  e.key = k =>
                     IF now > e.expiresAt
                     THEN v.outcome = "expired" /\ e \notin v.storage
                     ELSE IF e.verified
                     THEN v.outcome = "already_used" /\ v.storage = otpStorage
                     ELSE IF e.attempts >= OTP_MAX_ATTEMPTS
                     THEN v.outcome = "max_attempts" /\ ~MapHas(v.storage, k)
                     ELSE v.outcome \in {"mismatch", "ok"} /\ MapHas(v.storage, k)
    /\ \A a \in EmailInputs, c \in SubmittedCodes :
          LET k == normalizeEmail(a)
              v == Email_verify(verificationStorage, a, c, now)
          IN
          IF \A e \in verificationStorage : e.key # k
          THEN v.outcome = "not_found" /\ v.storage = verificationStorage
          ELSE \A e \in verificationStorage :
                  e.key = k =>
                     IF now > e.expiresAt
                     THEN v.outcome = "expired" /\ e \notin v.storage
                     ELSE IF e.verified
                     THEN v.outcome = "already_used"
                          /\ v.storage = verificationStorage
                     ELSE IF e.attempts >= CODE_MAX_ATTEMPTS
                     THEN v.outcome = "max_attempts" /\ ~MapHas(v.storage, k)
                     ELSE v.outcome \in {"mismatch", "ok"} /\ MapHas(v.storage, k)

\* a verify call has answered "already used" on a record verified at its last
\* attempt, and the record is still stored
Wit_C14 ==
    \E e \in Entries :
        /\ LastVerified(e)
        /\ result.op \in {"verifyOTP", "verifyCode"}
        /\ result.outcome = "already_used"
        /\ e.verified
        /\ e.attempts = CapOf(e)

----------------------------------------------------------------------------
(* C15 *)

\* a verify step on the record under k answers "mismatch": the record's
\* attempts go up by one, the answer reports cap - attempts as they are after
\* the step, which is not negative, and one less than the mismatch reported
\* by the verify call before it on the same record
CountsDown(storage, storage2, k, cap) ==
    LET before == MapGet(storage, k)
        after == MapGet(storage2, k)
    IN
    /\ after.attempts = before.attempts + 1
    /\ after.attempts <= cap
    /\ result'.n = cap - after.attempts
    /\ result'.n >= 0
    /\ (before.oks = 0 /\ before.attempts = before.compared) =>
          result'.n = cap - (before.compared + 1)
    /\ (LastVerified(before) /\ result.outcome = "mismatch") =>
          result'.n = result.n - 1

----------------------------------------------------------------------------
(* C16 *)

\* spellings of the phone number 98765 43210: with and without the country
\* code, with spaces, dashes and parentheses
PhoneVariants ==
    {prefix \o <<"9", "8", "7", "6", "5">> \o sep \o <<"4", "3", "2", "1", "0">> :
        prefix \in {<<>>, <<"+", "9", "1">>, <<"9", "1">>, <<"+", "9", "1", " ">>,
                    <<"(", "+", "9", "1", ")", " ">>, <<"9", "1", "-">>},
        sep \in {<<>>, <<" ">>, <<"-">>}}

\* spellings of the email address a@x: in either case, with blanks around
EmailVariants ==
    {lead \o <<l, "@", d>> \o trail :
        lead \in {<<>>, <<" ">>, <<"\t", " ">>}, l \in {"a", "A"},
        d \in {"x", "X"}, trail \in {<<>>, <<" ">>}}

\* other strings a caller may pass for a phone number
PhoneOddities ==
    {<<>>, <<"+">>, <<"1", "2", "3">>, <<"+", "1", "2", " ", "3">>,
     <<"0", "9", "8", "7", "6", "5", "4", "3", "2", "1", "0">>, OtherPhone}

\* the spellings of one identity have one key, and normalizing a key gives
\* the key
NormalizationIsIdempotent ==
    /\ \A x \in PhoneVariants \cup PhoneInputs :
          formatPhoneNumber(x) =
             <<"+", "9", "1", "9", "8", "7", "6", "5", "4", "3", "2", "1", "0">>
    /\ \A x \in PhoneVariants \cup PhoneInputs \cup PhoneOddities :
          formatPhoneNumber(formatPhoneNumber(x)) = formatPhoneNumber(x)
    /\ \A x \in EmailVariants \cup EmailInputs :
          normalizeEmail(x) = <<"a", "@", "x">>
    /\ \A x \in EmailVariants \cup EmailInputs \cup {OtherEmail} :
          normalizeEmail(normalizeEmail(x)) = normalizeEmail(x)

\* C16: normalization maps the spellings of one identity to one key and is
\* idempotent, and send, verify and clear all normalize: a record stored
\* under one spelling is found under every other spelling of the identity; it
\* makes a send call under that spelling rate-limited while unexpired, a
\* verify call with its code answers as for any other spelling, and a clear
\* call under that spelling removes it.
Thm_C16 ==
    /\ NormalizationIsIdempotent
    /\ \A e \in otpStorage, q \in PhoneInputs :
          /\ formatPhoneNumber(q) = e.key
          /\ ~(now > e.expiresAt) =>
                OTP_RateLimited(cleanupExpiredOTPs(otpStorage, now),
                                formatPhoneNumber(q), now)
          /\ OTP_verify(otpStorage, q, e.otp, now).outcome # "not_found"
          /\ \A p \in PhoneInputs :
                OTP_verify(otpStorage, q, e.otp, now)
                   = OTP_verify(otpStorage, p, e.otp, now)
          /\ e \notin MapDelete(otpStorage, formatPhoneNumber(q))
    /\ flow = "email" =>
          \A e \in verificationStorage, q \in EmailInputs :
             /\ normalizeEmail(q) = e.key
             /\ ~(now > e.expiresAt) =>
                   Email_RateLimited(cleanupExpiredCodes(verificationStorage, now),
                                     normalizeEmail(q), now)
             /\ Email_verify(verificationStorage, q, e.code, now).outcome
                   # "not_found"
             /\ \A p \in EmailInputs :
                   Email_verify(verificationStorage, q, e.code, now)
                      = Email_verify(verificationStorage, p, e.code, now)
             /\ e \notin MapDelete(verificationStorage, normalizeEmail(q))

\* a record is stored under the one key of several spellings, and a verify
\* call has succeeded on it
Wit_C16 ==
    \E e \in otpStorage :
        /\ Cardinality({q \in PhoneInputs : formatPhoneNumber(q) = e.key}) >= 3
        /\ \E q \in PhoneInputs : q # e.key
        /\ LastVerified(e)
        /\ result.outcome = "ok"
        /\ e.verified

----------------------------------------------------------------------------
(* C17 *)

\* C17: getStats leaves every record of the store as it is (it does not
\* sweep) and returns total = the number of stored records, expired = the
\* number of them with now > expiresAt, verified = the number with verified =
\* true; so expired <= total and verified <= total.
Thm_C17 ==
    [][ /\ OTP_getStats =>
             /\ otpStorage' = otpStorage
             /\ result'.n = Cardinality(otpStorage)
             /\ result'.expired = Cardinality({e \in otpStorage : now > e.expiresAt})
             /\ result'.verified = Cardinality({e \in otpStorage : e.verified})
             /\ result'.expired <= result'.n
             /\ result'.verified <= result'.n
        /\ Email_getStats =>
             /\ verificationStorage' = verificationStorage
             /\ result'.n = Cardinality(verificationStorage)
             /\ result'.expired =
                   Cardinality({e \in verificationStorage : now > e.expiresAt})
             /\ result'.verified =
                   Cardinality({e \in verificationStorage : e.verified})
             /\ result'.expired <= result'.n
             /\ result'.verified <= result'.n
      ]_vars

\* getStats has counted two records, one of them expired and still stored
Wit_C17 ==
    /\ result.op = "getStats"
    /\ result.n = 2
    /\ result.expired = 1
    /\ result.verified >= 1
    /\ \E e \in Entries : now > e.expiresAt

----------------------------------------------------------------------------
(* C18 *)

\* C18: verifyPasswordResetCode succeeds only on a record that
\* sendPasswordResetCode stored for the same email address, that is a record
\* stored under "reset_" followed by the address its code was sent to; never
\* on a record that sendVerificationCode stored.
CE_C18 ==
    \A e \in verificationStorage :
        (/\ LastVerified(e)
         /\ result.op = "verifyPasswordResetCode"
         /\ result.outcome = "ok") => e.key = resetKey(e.email)

----------------------------------------------------------------------------
(* C19 *)

\* C19: the rollback of a send call whose delivery failed deletes no record
\* that another send call stored: the record of an issuance that succeeds,
\* while it is unexpired and neither cleared nor removed by a verify call, is
\* never removed by a rollback.
CE_C19 ==
    \A k \in Keys : ~(Within(k, now) /\ lastIssue[k].since = "rollback")

----------------------------------------------------------------------------
(* C20 *)

\* C20: when a send call ends in failure because its delivery failed, no
\* verify call has returned success on the record it stored, not even while
\* the delivery was in flight.
CE_C20 ==
    (result.op \in SendOps /\ result.outcome = "delivery_failed") => result.n = 0

----------------------------------------------------------------------------
(* C21 *)

\* a send call for k is awaiting its delivery, its record is the last one
\* stored under k and is not expired, and clear has not run for k since
Overlaps(k) ==
    /\ \E c \in BagToSet(inflight) : c.op \in SendOps /\ c.key = k /\ c.latest
    /\ lastIssue[k].since # "clear"
    /\ now <= lastIssue[k].expiresAt

\* C21: a send call that starts while another send call for the same key is
\* awaiting its delivery, with no verify or clear call in between, is refused
\* as rate-limited and hands no code to the delivery adapter: of the two, one
\* generates a code.
CE_C21 ==
    [][ /\ \A p \in PhoneInputs, r \in RandSamples :
             (sendOTP(p, r) /\ Overlaps(formatPhoneNumber(p))) =>
                (result'.outcome = "rate_limited" /\ inflight' = inflight)
        /\ \A a \in EmailInputs, r \in RandSamples :
             (sendVerificationCode(a, r) /\ Overlaps(normalizeEmail(a))) =>
                (result'.outcome = "rate_limited" /\ inflight' = inflight)
        /\ \A a \in EmailInputs, r \in RandSamples :
             (sendPasswordResetCode(a, r)
                 /\ Overlaps(resetKey(normalizeEmail(a)))) =>
                (result'.outcome = "rate_limited" /\ inflight' = inflight)
      ]_vars

----------------------------------------------------------------------------
(* C23 *)

\* what a verify step on key k that answered "outcome" did to the attempts of
\* the record under k: a call that reached the comparison (success or
\* mismatch) found a record below the cap and left it with one attempt more,
\* verified exactly on success; any other call left the attempts of whatever
\* record remains as they were
CountsOnce(storage, storage2, k, cap, outcome) ==
    IF outcome \in {"ok", "mismatch"} THEN
        /\ MapHas(storage, k) /\ MapHas(storage2, k)
        /\ LET before == MapGet(storage, k)
               after == MapGet(storage2, k)
           IN /\ before.attempts < cap
              /\ after.attempts = before.attempts + 1
              /\ after.compared = before.compared + 1
              /\ after.verified = (before.verified \/ outcome = "ok")
              /\ after.expiresAt = before.expiresAt
    ELSE
        /\ outcome \in {"not_found", "expired", "already_used", "max_attempts"}
        /\ MapHas(storage2, k) =>
              (MapHas(storage, k) /\ MapGet(storage2, k) = MapGet(storage, k))

\* C23: every verify call that passes the gates (record found, unexpired, not
\* consumed, attempts below the cap) adds exactly one to attempts, on success
\* as on mismatch, so that the correct code given as the last allowed attempt
\* succeeds with attempts = maxAttempts; a call stopped at a gate leaves
\* attempts as they were.
Thm_C23 ==
    [][ VerifyStep =>
        ( /\ \A p \in PhoneInputs, c \in SubmittedCodes :
               verifyOTP(p, c) =>
                  /\ result'.op = "verifyOTP"
                  /\ CountsOnce(otpStorage, otpStorage', formatPhoneNumber(p),
                                OTP_MAX_ATTEMPTS, result'.outcome)
                  /\ LET k == formatPhoneNumber(p) IN
                     (/\ MapHas(otpStorage, k)
                      /\ ~OTP_isExpired(MapGet(otpStorage, k), now)
                      /\ ~MapGet(otpStorage, k).verified
                      /\ MapGet(otpStorage, k).attempts < OTP_MAX_ATTEMPTS) =>
                        /\ result'.outcome \in {"ok", "mismatch"}
                        /\ (result'.outcome = "ok") = (MapGet(otpStorage, k).otp = c)
          /\ \A a \in EmailInputs, c \in SubmittedCodes :
               verifyCode(a, c) =>
                  /\ result'.op = "verifyCode"
                  /\ CountsOnce(verificationStorage, verificationStorage',
                                normalizeEmail(a), CODE_MAX_ATTEMPTS,
                                result'.outcome)
                  /\ LET k == normalizeEmail(a) IN
                     (/\ MapHas(verificationStorage, k)
                      /\ ~Email_isExpired(MapGet(verificationStorage, k), now)
                      /\ ~MapGet(verificationStorage, k).verified
                      /\ MapGet(verificationStorage, k).attempts
                            < CODE_MAX_ATTEMPTS) =>
                        /\ result'.outcome \in {"ok", "mismatch"}
                        /\ (result'.outcome = "ok") =
                              (MapGet(verificationStorage, k).code = trim(c))
        )
      ]_vars

\* the correct code given as the last allowed attempt has succeeded and left
\* attempts = maxAttempts, after wrong calls that were each counted
Wit_C23 ==
    \E e \in Entries :
        /\ LastVerified(e)
        /\ result.outcome = "ok"
        /\ e.verified
        /\ e.attempts = CapOf(e)
        /\ e.compared = CapOf(e)
        /\ e.oks = 1

----------------------------------------------------------------------------
(* C24 *)

\* C24: in all three flows a consumed record is terminal: a verify call made
\* on a record that is verified answers "already used" and changes neither
\* its verified flag nor its attempts, and never removes it through the
\* attempts-used-up branch.
CE_C24 ==
    [][ /\ \A p \in PhoneInputs, c \in SubmittedCodes :
             LET k == formatPhoneNumber(p) IN
             (/\ verifyOTP(p, c)
              /\ MapHas(otpStorage, k)
              /\ MapGet(otpStorage, k).verified
              /\ ~OTP_isExpired(MapGet(otpStorage, k), now)) =>
                /\ result'.outcome = "already_used"
                /\ otpStorage' = otpStorage
        /\ \A a \in EmailInputs, c \in SubmittedCodes :
             LET k == normalizeEmail(a) IN
             (/\ verifyCode(a, c)
              /\ MapHas(verificationStorage, k)
              /\ MapGet(verificationStorage, k).verified
              /\ ~Email_isExpired(MapGet(verificationStorage, k), now)) =>
                /\ result'.outcome = "already_used"
                /\ verificationStorage' = verificationStorage
        /\ \A a \in EmailInputs, c \in SubmittedCodes :
             LET k == resetKey(normalizeEmail(a)) IN
             (/\ verifyPasswordResetCode(a, c)
              /\ MapHas(verificationStorage, k)
              /\ MapGet(verificationStorage, k).verified
              /\ ~Email_isExpired(MapGet(verificationStorage, k), now)) =>
                /\ result'.outcome = "already_used"
                /\ verificationStorage' = verificationStorage
      ]_vars

----------------------------------------------------------------------------
(* C25 *)

\* C25: every stored record has 0 <= attempts <= maxAttempts of its flow
\* (3 for phone, 5 for email verification and password reset); attempts =
\* maxAttempts is the used-up state.
Thm_C25 ==
    \A e \in Entries :
        /\ 0 <= e.attempts
        /\ e.attempts <= CapOf(e)
        /\ e.attempts = e.compared

\* records with attempts = maxAttempts are stored: one whose last attempt was
\* a mismatch, in a flow of cap 3 or of cap 5
Wit_C25 ==
    \E e \in Entries :
        /\ e.attempts = CapOf(e)
        /\ ~e.verified
        /\ LastVerified(e)
        /\ result.outcome = "mismatch"
        /\ result.n = 0

----------------------------------------------------------------------------
(* C26 *)

\* a send step for key k found an expired record under k: it was not refused,
\* it handed a code to the delivery adapter, and the record now under k is
\* the fresh one
Reissues(storage, storage2, k, fresh) ==
    (MapHas(storage, k) /\ now > MapGet(storage, k).expiresAt) =>
        /\ BagCardinality(inflight') = BagCardinality(inflight) + 1
        /\ result' = result
        /\ MapHas(storage2, k)
        /\ MapGet(storage2, k) = fresh
        /\ Cardinality({e \in storage2 : e.key = k}) = 1

\* C26: a send call made when now > expiresAt of the record stored under its
\* key is never rate-limited by that record, whatever its attempts and
\* verified, and replaces it with a fresh record: once the TTL has elapsed a
\* code can be issued again without clear.
Thm_C26 ==
    [][ SendStep =>
        ( /\ \A p \in PhoneInputs, r \in RandSamples :
               sendOTP(p, r) =>
                  Reissues(otpStorage, otpStorage', formatPhoneNumber(p),
                           OTP_NewRecord(formatPhoneNumber(p), generateOTP(r), now))
          /\ \A a \in EmailInputs, r \in RandSamples :
               sendVerificationCode(a, r) =>
                  Reissues(verificationStorage, verificationStorage',
                           normalizeEmail(a),
                           Email_NewRecord(normalizeEmail(a), normalizeEmail(a),
                                           generateVerificationCode(r), now))
          /\ \A a \in EmailInputs, r \in RandSamples :
               sendPasswordResetCode(a, r) =>
                  Reissues(verificationStorage, verificationStorage',
                           resetKey(normalizeEmail(a)),
                           Email_NewRecord(resetKey(normalizeEmail(a)),
                                           normalizeEmail(a),
                                           generateVerificationCode(r), now))
        )
      ]_vars

\* the last call to finish was a successful verify call for k, neither clear
\* nor a rollback has run since, and a send call made after the TTL has stored
\* a fresh record under k in place of the consumed one
Wit_C26 ==
    \E e \in Entries :
        /\ result.op \in VerifyOps
        /\ result.key = e.key
        /\ result.outcome = "ok"
        /\ e.attempts = 0
        /\ ~e.verified
        /\ e.expiresAt = now + FlowTTL
        /\ e.expiresAt > FlowTTL
        /\ \E c \in BagToSet(inflight) : c.key = e.key /\ c.latest

----------------------------------------------------------------------------
(* C27 *)

\* the effect of a send step for key k on the store: a record under another
\* key is removed if its expiresAt < now and otherwise left as it is; a record
\* under k with expiresAt >= now is left as it is and the call is refused;
\* nothing appears under another key; and the expiry test of verify answers
\* "expired" for exactly the records the sweep removes
SweepsExactly(storage, storage2, k, expired(_)) ==
    /\ \A e \in storage :
          /\ (e.key # k) => ((e \in storage2) <=> (e.expiresAt >= now))
          /\ (e.key = k /\ e.expiresAt >= now) =>
                (e \in storage2 /\ result'.outcome = "rate_limited")
          /\ (e.key = k /\ e.expiresAt < now) => e \notin storage2
          /\ expired(e) <=> (e.expiresAt < now)
    /\ \A e \in storage2 : (e.key # k) => e \in storage

OTP_ExpiredNow(e) == OTP_isExpired(e, now)

Email_ExpiredNow(e) == Email_isExpired(e, now)

\* C27: the sweep at the start of every send call, refused or not, removes
\* exactly the records with expiresAt < now, under every key, and leaves the
\* records with expiresAt >= now as they are; the sweep and the expiry test of
\* verify agree at the boundary, where a record with expiresAt = now is kept
\* and is not reported expired.
Thm_C27 ==
    [][ /\ \A p \in PhoneInputs, r \in RandSamples :
             sendOTP(p, r) =>
                SweepsExactly(otpStorage, otpStorage', formatPhoneNumber(p),
                              OTP_ExpiredNow)
        /\ \A a \in EmailInputs, r \in RandSamples :
             sendVerificationCode(a, r) =>
                SweepsExactly(verificationStorage, verificationStorage',
                              normalizeEmail(a), Email_ExpiredNow)
        /\ \A p \in PhoneInputs, c \in SubmittedCodes :
             (verifyOTP(p, c) /\ \E e \in otpStorage :
                  e.key = formatPhoneNumber(p) /\ e.expiresAt = now) =>
                result'.outcome # "expired"
        /\ \A a \in EmailInputs, c \in SubmittedCodes :
             (verifyCode(a, c) /\ \E e \in verificationStorage :
                  e.key = normalizeEmail(a) /\ e.expiresAt = now) =>
                result'.outcome # "expired"
      ]_vars

\* a send call made at the instant now = expiresAt has been refused: its
\* record and the record of the other identity, which expires at the same
\* instant, are both still stored
Wit_C27 ==
    /\ result.op \in SendOps
    /\ result.outcome = "rate_limited"
    /\ \E e \in Entries : e.key = result.key /\ e.expiresAt = now
    /\ \E e \in Entries : e.key \in OtherKeys /\ e.expiresAt = now

----------------------------------------------------------------------------
(* C28 *)

\* a send step for key k that passed the rate limit: the one record under k
\* is new in every field (no attempt, not verified, the code just generated,
\* expiring one TTL after this instant) and its code is the one handed to the
\* delivery adapter
StoresFresh(storage2, k, code, ttlMinutes) ==
    (inflight' # inflight) =>
        /\ Cardinality({e \in storage2 : e.key = k}) = 1
        /\ LET rec == MapGet(storage2, k) IN
              /\ rec.attempts = 0
              /\ rec.verified = FALSE
              /\ rec.compared = 0 /\ rec.oks = 0
              /\ rec.expiresAt = now + ttlMinutes * MinuteMs
              /\ IF "otp" \in DOMAIN rec THEN rec.otp = code ELSE rec.code = code
        /\ \E c \in BagToSet(inflight') :
              c.key = k /\ c.latest /\ c.code = code

\* C28: a send call that passes the rate-limit test stores a record with
\* attempts = 0, verified = false, the newly generated code and expiresAt =
\* now + TTL, which replaces whatever record was stored under the key: no
\* attempt count and no verified flag is carried over.
Thm_C28 ==
    [][ SendStep =>
        ( /\ \A p \in PhoneInputs, r \in RandSamples :
               sendOTP(p, r) =>
                  StoresFresh(otpStorage', formatPhoneNumber(p), generateOTP(r),
                              OTP_EXPIRY_MINUTES)
          /\ \A a \in EmailInputs, r \in RandSamples :
               sendVerificationCode(a, r) =>
                  StoresFresh(verificationStorage', normalizeEmail(a),
                              generateVerificationCode(r), CODE_EXPIRY_MINUTES)
          /\ \A a \in EmailInputs, r \in RandSamples :
               sendPasswordResetCode(a, r) =>
                  StoresFresh(verificationStorage', resetKey(normalizeEmail(a)),
                              generateVerificationCode(r), CODE_EXPIRY_MINUTES)
        )
      ]_vars

\* the last call to finish answered a mismatch for k, so that the record then
\* stored had attempts counted, and the record now under k is a fresh one
\* stored by a send call that is awaiting its delivery
Wit_C28 ==
    \E e \in Entries :
        /\ result.op \in VerifyOps
        /\ result.key = e.key
        /\ result.outcome = "mismatch"
        /\ e.attempts = 0
        /\ ~e.verified
        /\ e.expiresAt = now + FlowTTL
        /\ \E c \in BagToSet(inflight) : c.key = e.key /\ c.latest

----------------------------------------------------------------------------
(* C30 *)

\* a step of one purpose, whose record is under key own, leaves the record of
\* the other purpose, under key other, as it is if that record is unexpired
LeavesOther(own, other) ==
    /\ own # other
    /\ \A e \in verificationStorage :
          (e.key = other /\ e.expiresAt >= now) => e \in verificationStorage'
    /\ \A e \in verificationStorage' :
          (e.key = other) => e \in verificationStorage

\* a send step of one purpose is refused only by an unexpired record under
\* its own key
RefusedByOwn(own) ==
    (~MapHas(verificationStorage, own)
        \/ Email_isExpired(MapGet(verificationStorage, own), now)) =>
       (inflight' # inflight /\ result' = result)

----------------------------------------------------------------------------
(* C22 *)

\* the verifyPhoneOTP calls for key k that have verified a code and are
\* awaiting the sign-up
AwaitingSignUp(k) ==
    {c \in BagToSet(inflight) : c.op = "verifyPhoneOTP" /\ c.key = k}

\* C22: however verifyPhoneOTP calls for one phone interleave, each call that
\* gets as far as the sign-up, and so returns a session token, is the first
\* and only call to succeed on the record of the issued code: a call arriving
\* while an earlier successful call awaits the sign-up, its record not yet
\* cleared, is refused; and every call that got so far returns one token.
Thm_C22 ==
    [][ /\ \A p \in PhoneInputs \cup {AuthPhone}, c \in SubmittedCodes :
             LET k == formatPhoneNumber(p) IN
             /\ (verifyPhoneOTP(p, c) /\ inflight' # inflight) =>
                   /\ MapHas(otpStorage, k)
                   /\ MapGet(otpStorage, k).oks = 0
                   /\ ~MapGet(otpStorage, k).verified
                   /\ MapGet(otpStorage', k).oks = 1
                   /\ BagCardinality(inflight') = BagCardinality(inflight) + 1
                   /\ result' = result
             /\ (/\ verifyPhoneOTP(p, c)
                 /\ MapHas(otpStorage, k)
                 /\ MapGet(otpStorage, k).verified
                 /\ ~OTP_isExpired(MapGet(otpStorage, k), now)) =>
                   /\ result'.outcome = "already_used"
                   /\ inflight' = inflight
             /\ (verifyPhoneOTP(p, c) /\ inflight' = inflight) =>
                   result'.outcome \notin {"ok", "token"}
        /\ \A call \in BagToSet(inflight), o \in SignUpOutcomes :
             verifyPhoneOTP_resume(call, o) =>
                /\ result'.outcome = "token"
                /\ BagCardinality(inflight') = BagCardinality(inflight) - 1
      ]_vars

\* a verifyPhoneOTP call has been refused with "already used" while the call
\* that verified the code is still awaiting the sign-up and the record is
\* still stored
Wit_C22 ==
    \E e \in otpStorage :
        /\ e.verified
        /\ e.oks = 1
        /\ AwaitingSignUp(e.key) # {}
        /\ result.op = "verifyPhoneOTP"
        /\ result.key = e.key
        /\ result.outcome = "already_used"

----------------------------------------------------------------------------
(* C29 *)

\* C29: whenever AuthService.verifyPhoneOTP, verifyEmail or resetPassword
\* returns success, no record is stored under the call's key when it returns:
\* the flow has cleared its record.
Thm_C29 ==
    [][ \A call \in BagToSet(inflight) :
          /\ \A o \in SignUpOutcomes :
                (verifyPhoneOTP_resume(call, o) /\ result'.outcome = "token") =>
                   (~MapHas(otpStorage', call.key) /\ result'.key = call.key)
          /\ \A o \in LookupOutcomes :
                /\ (/\ verifyEmail_resume(call, o)
                    /\ result'.outcome = "email_verified") =>
                      /\ ~MapHas(verificationStorage', call.key)
                      /\ result'.key = call.key
                /\ (/\ resetPassword_resume(call, o)
                    /\ result'.outcome = "password_reset") =>
                      /\ ~MapHas(verificationStorage', call.key)
                      /\ result'.key = call.key
      ]_vars

\* a call has returned success and removed a record that was stored under its
\* key until then
Wit_C29 ==
    /\ result.op \in {"verifyPhoneOTP", "verifyEmail", "resetPassword"}
    /\ result.outcome \in {"token", "email_verified", "password_reset"}
    /\ result.hist
    /\ \A e \in Entries : e.key # result.key
    /\ lastIssue[result.key].since = "clear"

----------------------------------------------------------------------------
(* C31 *)

\* C31: requestPasswordReset answers with the same success flag and the same
\* message whether or not an account with the address exists, and whether the
\* reset code was issued, refused as rate-limited, or failed to be delivered.
Thm_C31 ==
    (result.op = "requestPasswordReset" /\ result.issue # "threw") =>
        /\ result.success
        /\ result.message = GenericResetMessage
        /\ result.user \in BOOLEAN
        /\ result.issue \in {"none", "sent", "rate_limited", "delivery_failed"}
        /\ (result.issue # "none") => result.user

\* requestPasswordReset has answered for an existing account whose reset
\* code was refused as rate-limited
Wit_C31 ==
    /\ result.op = "requestPasswordReset"
    /\ result.user
    /\ result.issue = "rate_limited"
    /\ result.success
    /\ MapHas(verificationStorage, result.key)

----------------------------------------------------------------------------
(* C32 *)

\* a verify step for key k on one store: the records under the other keys
\* are the same before and after, no record appears under k, and a record
\* that stays under k keeps its code, its expiresAt and its address
TouchesOwnOnly(storage, storage2, k) ==
    /\ {e \in storage : e.key # k} = {e \in storage2 : e.key # k}
    /\ MapHas(storage2, k) => MapHas(storage, k)
    /\ (MapHas(storage, k) /\ MapHas(storage2, k)) =>
          LET before == MapGet(storage, k)
              after == MapGet(storage2, k)
          IN
          [after EXCEPT !.attempts = 0, !.verified = FALSE,
                        !.compared = 0, !.oks = 0]
             = [before EXCEPT !.attempts = 0, !.verified = FALSE,
                              !.compared = 0, !.oks = 0]

\* C32: a verify call for key k changes at most k's own record: the records
\* of all other keys and the other store are left as they are, and the code
\* and expiresAt stored under k are never changed by verify, so that a wrong
\* guess neither renews the code nor moves the expiry.
Thm_C32 ==
    [][ VerifyStep =>
        ( /\ \A p \in {FirstPhone}, c \in FrameCodes :
               verifyOTP(p, c) =>
                  /\ TouchesOwnOnly(otpStorage, otpStorage', formatPhoneNumber(p))
                  /\ verificationStorage' = verificationStorage
          /\ \A a \in {FirstEmail}, c \in FrameCodes :
               verifyCode(a, c) =>
                  /\ TouchesOwnOnly(verificationStorage, verificationStorage',
                                    normalizeEmail(a))
                  /\ otpStorage' = otpStorage
        )
      ]_vars

\* a wrong guess has been counted on the record of one identity, which keeps
\* the expiry it was issued with, next to the untouched record of another
Wit_C32 ==
    \E e \in Entries :
        /\ LastVerified(e)
        /\ result.outcome = "mismatch"
        /\ e.attempts >= 2
        /\ e.expiresAt = lastIssue[e.key].expiresAt
        /\ now > 0
        /\ \E o \in Entries : o.key \in OtherKeys /\ o.key # e.key

----------------------------------------------------------------------------
(* C33 *)

DebugOps == {"TestSendOTP", "TestVerifyOTP", "TestOtpStatus",
             "getVerificationStatus"}

\* the body carries a stored code
CarriesCode(body) ==
    "otp" \in DOMAIN body.debug_info \/ "code" \in DOMAIN body.debug_info

\* C33: outside development mode the accessors getOTPStatus and
\* getVerificationStatus answer null and no body of the test routes carries
\* the stored code; and what verify answers and does to the store for a given
\* store and input does not depend on the mode.
Thm_C33 ==
    [][ /\ (result'.op \in DebugOps /\ result'.env # "development") =>
              /\ ~CarriesCode(result')
              /\ result'.debug_info \in {Null, Undefined}
        /\ \A m \in NodeEnvs :
              /\ getOTPStatus(otpStorage', AuthPhone, m, now') # Null
                    <=> m = "development"
              /\ getVerificationStatus(verificationStorage', PlainEmail, m, now')
                    # Null <=> m = "development"
        /\ \A c \in FrameCodes, m \in NodeEnvs :
              TestVerifyOTP(AuthPhone, c, m) =>
                 LET v == OTP_verify(otpStorage, AuthPhone, c, now) IN
                 /\ otpStorage' = v.storage
                 /\ result'.outcome = v.outcome
      ]_vars

\* outside development mode the send route has answered success with no
\* debug_info while the code it issued is stored
Wit_C33 ==
    /\ result.op = "TestSendOTP"
    /\ result.outcome = "sent"
    /\ result.env = "production"
    /\ result.debug_info = Undefined
    /\ MapHas(otpStorage, result.key)
    /\ MapGet(otpStorage, result.key).otp \in FrameCodes

----------------------------------------------------------------------------
(* C34 *)

\* the answer of a verified-query for key k, given on a state: true exactly
\* when a verified, unexpired record is stored under k, in which case a
\* verify call has succeeded on it and clear has not run since; and the query
\* has changed neither store
AnswersVerified(storage, k) ==
    /\ result'.hist <=>
          \E e \in storage : e.key = k /\ e.verified /\ ~(now > e.expiresAt)
    /\ result'.hist =>
          /\ MapGet(storage, k).oks >= 1
          /\ lastIssue[k].since \notin {"clear", "quiet"}
    /\ (lastIssue[k] = NoIssue \/ lastIssue[k].since = "clear"
           \/ now > lastIssue[k].expiresAt) => ~result'.hist
    /\ otpStorage' = otpStorage
    /\ verificationStorage' = verificationStorage

\* C34: isOTPVerified and isEmailVerified answer true exactly when the store
\* holds a verified, unexpired record under the normalized key: false before
\* a verify call has succeeded, after clear, and once now > expiresAt; a call
\* changes no store.
Thm_C34 ==
    [][ /\ \A p \in PhoneInputs :
             CheckOTPVerified(p) =>
                AnswersVerified(otpStorage, formatPhoneNumber(p))
        /\ \A a \in EmailInputs :
             CheckEmailVerified(a) =>
                AnswersVerified(verificationStorage, normalizeEmail(a))
      ]_vars

\* a query has answered false for a key whose verified record is still
\* stored, past its expiry
Wit_C34 ==
    \E e \in Entries :
        /\ result.op \in {"isOTPVerified", "isEmailVerified"}
        /\ result.key = e.key
        /\ ~result.hist
        /\ e.verified
        /\ now > e.expiresAt

----------------------------------------------------------------------------
(* C35 *)

RECURSIVE NumberOf(_)
\* the number a string of decimal digits writes
NumberOf(str) ==
    IF str = <<>> THEN 0
    ELSE NumberOf(SubSeq(str, 1, Len(str) - 1)) * 10
            + (CHOOSE d \in 0 .. 9 : Digits[d + 1] = str[Len(str)])

\* C35: every generated code is a string of exactly six decimal digits that
\* writes a number in 100000..999999, so without a leading zero, and the
\* delivery adapter's own format check ("Invalid OTP format", length # 6)
\* never rejects it.
Thm_C35 ==
    (result.outcome = "generated") =>
        /\ Len(result.code) = 6
        /\ \A i \in 1 .. Len(result.code) :
              \E d \in 1 .. 10 : result.code[i] = Digits[d]
        /\ result.code[1] # "0"
        /\ NumberOf(result.code) >= 100000
        /\ NumberOf(result.code) <= 999999
        /\ NumberOf(result.code) = 100000 + (result.n * 900000) \div RandDen
        /\ SMS_sendOTP(AuthPhone, result.code, TRUE)

\* the generators have been applied to the largest and to the smallest draw
Wit_C35 ==
    /\ result.outcome = "generated"
    /\ result.n = RandDen - 1
    /\ result.code[1] = "9"
    /\ generateOTP(0) = <<"1", "0", "0", "0", "0", "0">>

----------------------------------------------------------------------------
(* C36 *)

\* C36: under any interleaving of createBooking requests for one flight the
\* flight's seatsAvailable is never negative, that is, the bookings stored for
\* the flight never outnumber the seats it had available at the start.
CE_C36 ==
    \A f \in flights :
        /\ f.seatsAvailable >= 0
        /\ Cardinality({b \in bookings : b.flightId = f.key}) <= f.seatsAtStart

====
